---- MODULE Spec2Model ----
(***************************************************************************)
(* ssync: manifest create / update (reconciliation) / compare.             *)
(*                                                                         *)
(* The model follows the core package (create, update, readManifest,       *)
(* writeManifest, createFile) and the compare command (runCompare).        *)
(* A directory tree is a function from relative paths to file objects, a   *)
(* disk is a function from manifest file names to file contents (CSV rows  *)
(* of text fields).  One action is one command invocation, executed the    *)
(* way the code executes it, or one change of the environment (the tree,   *)
(* a manifest file edited by hand).                                        *)
(***************************************************************************)
EXTENDS Integers, Sequences, FiniteSets, TLC

VARIABLES tree, disk, run, fresh, events, cmp, rc, codec, vf, ru

vars == <<tree, disk, run, fresh, events, cmp, rc, codec, vf, ru>>

-----------------------------------------------------------------------------
(* Bounds of the model *)

\* Number of events in one behaviour that are not a step of the regular
\* session: a change of the directory tree, or a command met by an adverse
\* environment or given an irregular command line.
MaxEvents == 2

\* Relative paths of the scanned directory, in ascending byte order
\* (Go's string < on the paths: '.' is less than '/').
PathSeq == <<"a.txt", "a/b.txt">>
Paths == {PathSeq[i] : i \in 1..Len(PathSeq)}

\* The same paths in the order filepath.WalkDir visits them: the entries of a
\* directory by name, "a" before "a.txt", a directory's files when it is met.
WalkSeq == <<"a/b.txt", "a.txt">>

\* NTFS file ids the file system hands out.
FileIds == {1, 2}

\* (modification time, size) of a file; the time has a sub-second part.
Stats == { [sec |-> 1, frac |-> 5, size |-> 10],
           [sec |-> 2, frac |-> 0, size |-> 20] }

\* Names of manifest files on disk.
ManifestSeq == <<"m0.csv", "m1.csv", "m2.csv">>
ManifestNames == {ManifestSeq[i] : i \in 1..Len(ManifestSeq)}

-----------------------------------------------------------------------------
(* The directory tree *)

NoFile == [id |-> 0]

\* A file object: its NTFS file id, its time and size, and body, which tells two
\* contents of the same length apart.  Each file object has bytes of its own:
\* two file objects of the same size differ in content.
FileObjs == { [id |-> i, sec |-> s.sec, frac |-> s.frac, size |-> s.size, body |-> i] :
              i \in FileIds, s \in Stats }

\* Stable ids are unique in the live tree (no hard links).
UniqueIds(t) == \A p, q \in Paths :
                  (t[p] # NoFile /\ t[q] # NoFile /\ p # q) => t[p].id # t[q].id

Trees == { t \in [Paths -> FileObjs \cup {NoFile}] : UniqueIds(t) }

\* Every path of the model in ascending byte order: the scanned paths and,
\* for the manifest codec, a path with a leading space and one with a comma
\* (' ' < ',' < '.' < '/'), and the files of a directory with more files
\* than the scan pipeline holds at a time.
AllPathSeq == <<" a", "a,b", "a.txt", "a/b.txt", "f1", "f2", "f3", "f4", "f5">>

PathIndex(p) == CHOOSE i \in 1..Len(AllPathSeq) : AllPathSeq[i] = p

\* fileInfoSlice[i].Path < fileInfoSlice[j].Path
PathLess(p, q) == PathIndex(p) < PathIndex(q)

-----------------------------------------------------------------------------
(* Text of the numeric CSV fields: strconv.FormatInt / ParseInt / ParseUint *)

Digits == <<"0", "1", "2", "3", "4", "5", "6", "7", "8", "9">>
DigitSet == {Digits[i] : i \in 1..10}
DigitVal(c) == (CHOOSE i \in 1..10 : Digits[i] = c) - 1

RECURSIVE FormatUint(_)
FormatUint(n) == IF n < 10 THEN <<Digits[n + 1]>>
                 ELSE Append(FormatUint(n \div 10), Digits[(n % 10) + 1])

\* strconv.FormatInt(n, 10)
FormatInt(n) == IF n < 0 THEN <<"-">> \o FormatUint(-n) ELSE FormatUint(n)

RECURSIVE DigitsValue(_)
DigitsValue(txt) == IF Len(txt) = 0 THEN 0
                    ELSE 10 * DigitsValue(SubSeq(txt, 1, Len(txt) - 1)) + DigitVal(txt[Len(txt)])

AllDigits(txt) == Len(txt) > 0 /\ \A i \in 1..Len(txt) : txt[i] \in DigitSet

\* strconv.ParseUint(s, 10, 64): no sign is accepted.
ParseUint(txt) == IF AllDigits(txt) THEN [ok |-> TRUE, val |-> DigitsValue(txt)]
                  ELSE [ok |-> FALSE, val |-> 0]

\* strconv.ParseInt(s, 10, 64): an optional sign, then digits.
ParseInt(txt) ==
  IF Len(txt) > 0 /\ txt[1] \in {"-", "+"}
  THEN LET u == ParseUint(Tail(txt))
       IN  [ok |-> u.ok, val |-> IF txt[1] = "-" THEN 0 - u.val ELSE u.val]
  ELSE ParseUint(txt)

-----------------------------------------------------------------------------
(* FileInfo and the manifest codec *)

\* calculateMD5: the digest of the file's bytes (length and body).
calculateMD5(f) == <<"md5", f.size, f.body>>

\* modifiedTime.Unix(): whole seconds, the sub-second part is dropped.
Unix(t) == t.sec

FileInfo(path, mtime, size, hash, id) ==
  [Path |-> path, ModifiedTime |-> mtime, Size |-> size, Hash |-> hash, NTFSFileID |-> id]

\* A manifest file name with no file behind it, and a file with its rows.
Absent == [exists |-> FALSE, bytes |-> <<>>]
File(rows) == [exists |-> TRUE, bytes |-> rows]

Header == <<"Path", "ModifiedTime", "Size", "Hash", "NtfsFileId">>

\* A writer that rounds the time to the nearest second instead of truncating.
ManifestLineRounded(fi) ==
  << fi.Path,
     FormatInt(IF fi.ModifiedTime.frac >= 5 THEN fi.ModifiedTime.sec + 1 ELSE fi.ModifiedTime.sec),
     FormatInt(fi.Size), fi.Hash, FormatUint(fi.NTFSFileID) >>

ManifestLine(fi) == << fi.Path, FormatInt(Unix(fi.ModifiedTime)), FormatInt(fi.Size),
                       fi.Hash, FormatUint(fi.NTFSFileID) >>

RECURSIVE HasDuplicatePath(_)
HasDuplicatePath(slice) ==
  IF Len(slice) < 2 THEN FALSE
  ELSE \/ \E i \in 2..Len(slice) : slice[i].Path = slice[1].Path
       \/ HasDuplicatePath(Tail(slice))

RECURSIVE InsertByPath(_, _)
InsertByPath(sorted, fi) ==
  IF Len(sorted) = 0 THEN <<fi>>
  ELSE IF PathLess(fi.Path, sorted[1].Path) THEN <<fi>> \o sorted
  ELSE <<sorted[1]>> \o InsertByPath(Tail(sorted), fi)

\* A writer that keeps the order of its input.
SortByPathKeepOrder(slice) == slice

\* sort.Slice(fileInfoSlice, func(i, j) { return slice[i].Path < slice[j].Path })
RECURSIVE SortByPath(_)
SortByPath(slice) ==
  IF Len(slice) = 0 THEN <<>>
  ELSE InsertByPath(SortByPath(SubSeq(slice, 1, Len(slice) - 1)), slice[Len(slice)])

\* writeManifest: the bytes written to the (empty) destination file.
writeManifest(slice) ==
  IF HasDuplicatePath(slice) THEN [err |-> TRUE, bytes |-> <<>>]
  ELSE LET sorted == SortByPath(slice)
       IN  [err |-> FALSE,
            bytes |-> <<Header>> \o [i \in 1..Len(sorted) |-> ManifestLine(sorted[i])]]

ParseLine(fields) ==
  LET t == ParseInt(fields[2])
      s == ParseInt(fields[3])
      n == ParseUint(fields[5])
  IN  [ok |-> t.ok /\ s.ok /\ n.ok,
       fi |-> FileInfo(fields[1], [sec |-> t.val, frac |-> 0], s.val, fields[4], n.val)]

\* readManifest: csv.Reader with FieldsPerRecord = 5, header skipped.
readManifest(file) ==
  LET bytes == file.bytes IN
  IF ~file.exists THEN [err |-> TRUE, slice |-> <<>>]
  ELSE IF Len(bytes) = 0 THEN [err |-> TRUE, slice |-> <<>>]
  ELSE IF \E i \in 1..Len(bytes) : Len(bytes[i]) # 5 THEN [err |-> TRUE, slice |-> <<>>]
  ELSE IF \E i \in 2..Len(bytes) : ~ParseLine(bytes[i]).ok THEN [err |-> TRUE, slice |-> <<>>]
  ELSE [err |-> FALSE, slice |-> [i \in 1..(Len(bytes) - 1) |-> ParseLine(bytes[i + 1]).fi]]

-----------------------------------------------------------------------------
(* The text of a manifest: encoding/csv as writeManifest and readManifest   *)
(* use it (comma separator, "\n" line end, no lazy quotes, no trimming).    *)
(* A text is a sequence of characters.                                      *)

\* The characters of the strings that stand for paths, hashes and header
\* names in the records.
SpellTable ==
  (" a" :> <<" ", "a">>) @@
  ("a,b" :> <<"a", ",", "b">>) @@
  ("a\"b" :> <<"a", "\"", "b">>) @@
  ("a.txt" :> <<"a", ".", "t", "x", "t">>) @@
  ("a/b.txt" :> <<"a", "/", "b", ".", "t", "x", "t">>) @@
  ("0cc1" :> <<"0", "c", "c", "1">>) @@
  ("9e10" :> <<"9", "e", "1", "0">>) @@
  ("Path" :> <<"P", "a", "t", "h">>) @@
  ("ModifiedTime" :> <<"M", "o", "d", "i", "f", "i", "e", "d", "T", "i", "m", "e">>) @@
  ("Size" :> <<"S", "i", "z", "e">>) @@
  ("Hash" :> <<"H", "a", "s", "h">>) @@
  ("NtfsFileId" :> <<"N", "t", "f", "s", "F", "i", "l", "e", "I", "d">>)

Spell(str) == SpellTable[str]

\* The string with these characters; "?" stands for any other string.
Unspell(chars) ==
  IF \E str \in DOMAIN SpellTable : SpellTable[str] = chars
  THEN CHOOSE str \in DOMAIN SpellTable : SpellTable[str] = chars
  ELSE "?"

\* The fields of a row as characters: the row of header names, or the row of
\* a record, whose numeric fields are characters already.
RowChars(row, isHeader) ==
  IF isHeader THEN [j \in 1..Len(row) |-> Spell(row[j])]
  ELSE <<Spell(row[1]), row[2], row[3], Spell(row[4]), row[5]>>

RowStrings(fields, isHeader) ==
  IF Len(fields) # 5 THEN fields
  ELSE IF isHeader THEN [j \in 1..5 |-> Unspell(fields[j])]
  ELSE <<Unspell(fields[1]), fields[2], fields[3], Unspell(fields[4]), fields[5]>>

\* csv.Writer.fieldNeedsQuotes: a comma, a quote, a line break, or a leading
\* space.
fieldNeedsQuotes(field) ==
  /\ Len(field) > 0
  /\ \/ \E i \in 1..Len(field) : field[i] \in {",", "\"", "\n", "\r"}
     \/ field[1] = " "

RECURSIVE csvEscape(_)
csvEscape(field) ==
  IF Len(field) = 0 THEN <<>>
  ELSE (IF Head(field) = "\"" THEN <<"\"", "\"">> ELSE <<Head(field)>>) \o csvEscape(Tail(field))

\* A writer that never quotes.
csvFieldBare(field) == field

\* One field as csv.Writer.Write emits it.
csvField(field) ==
  IF fieldNeedsQuotes(field) THEN <<"\"">> \o csvEscape(field) \o <<"\"">> ELSE field

RECURSIVE csvJoin(_)
csvJoin(fields) ==
  IF Len(fields) = 0 THEN <<>>
  ELSE IF Len(fields) = 1 THEN csvField(fields[1])
  ELSE csvField(fields[1]) \o <<",">> \o csvJoin(Tail(fields))

\* csv.Writer.Write for each row, then Flush.
RECURSIVE csvWriteAll(_, _)
csvWriteAll(rows, i) ==
  IF i > Len(rows) THEN <<>>
  ELSE csvJoin(RowChars(rows[i], i = 1)) \o <<"\n">> \o csvWriteAll(rows, i + 1)

\* csv.Reader, one field: the characters from position i up to the comma,
\* the line end or the end of the text that closes the field.  mode: at the
\* start of the field, in a bare field, in a quoted field, after a quote in a
\* quoted field.  A quote in a bare field and a character after the closing
\* quote are errors (LazyQuotes is off).
RECURSIVE csvReadField(_, _, _, _)
csvReadField(text, i, mode, field) ==
  IF i > Len(text)
  THEN [err |-> mode = "quoted", field |-> field, next |-> i, end |-> "eof"]
  ELSE
    LET c == text[i] IN
    IF mode = "quoted"
    THEN csvReadField(text, i + 1, IF c = "\"" THEN "quote" ELSE "quoted",
                      IF c = "\"" THEN field ELSE Append(field, c))
    ELSE IF mode = "quote" /\ c = "\"" THEN csvReadField(text, i + 1, "quoted", Append(field, c))
    ELSE IF c = "," THEN [err |-> FALSE, field |-> field, next |-> i + 1, end |-> "comma"]
    ELSE IF c = "\n" THEN [err |-> FALSE, field |-> field, next |-> i + 1, end |-> "newline"]
    ELSE IF mode = "quote" THEN [err |-> TRUE, field |-> field, next |-> i, end |-> "eof"]
    ELSE IF c = "\""
    THEN IF mode = "start" THEN csvReadField(text, i + 1, "quoted", field)
         ELSE [err |-> TRUE, field |-> field, next |-> i, end |-> "eof"]
    ELSE csvReadField(text, i + 1, "bare", Append(field, c))

\* csv.Reader, one record: fields up to the line end.
RECURSIVE csvReadRecord(_, _, _)
csvReadRecord(text, i, row) ==
  LET f == csvReadField(text, i, "start", <<>>) IN
  IF f.err THEN [err |-> TRUE, row |-> <<>>, next |-> i]
  ELSE IF f.end = "comma" THEN csvReadRecord(text, f.next, Append(row, f.field))
  ELSE [err |-> FALSE, row |-> Append(row, f.field), next |-> f.next]

\* csv.Reader.Read until EOF; a line without characters is skipped.
RECURSIVE csvReadFrom(_, _, _)
csvReadFrom(text, i, rows) ==
  IF i > Len(text) THEN [err |-> FALSE, rows |-> rows]
  ELSE IF text[i] = "\n" THEN csvReadFrom(text, i + 1, rows)
  ELSE LET r == csvReadRecord(text, i, <<>>) IN
       IF r.err THEN [err |-> TRUE, rows |-> <<>>]
       ELSE csvReadFrom(text, r.next, Append(rows, r.row))

\* writeManifest down to the text in the file.
writeManifestText(slice) ==
  LET w == writeManifest(slice) IN
  IF w.err THEN [err |-> TRUE, rows |-> <<>>, text |-> <<>>]
  ELSE [err |-> FALSE, rows |-> w.bytes, text |-> csvWriteAll(w.bytes, 1)]

\* readManifest from the text in the file.
readManifestText(text) ==
  LET r == csvReadFrom(text, 1, <<>>) IN
  IF r.err THEN [err |-> TRUE, slice |-> <<>>]
  ELSE readManifest(File([i \in 1..Len(r.rows) |-> RowStrings(r.rows[i], i = 1)]))

-----------------------------------------------------------------------------
(* What the environment does to one command invocation *)

NoFault == [kind |-> "none", path |-> ""]

\* root: the scan root cannot be accessed; stat: d.Info() fails for the file;
\* open: os.Open fails for the file; read: reading the file's bytes fails.
Faults == {NoFault, [kind |-> "root", path |-> ""]} \cup
          { [kind |-> k, path |-> p] : k \in {"stat", "open", "read"}, p \in Paths }

\* isNTFS's answer, and whether os.MkdirAll / os.Create succeed.
Nominal == [ntfs |-> "ntfs", createOK |-> TRUE, fault |-> NoFault]

Envs == {Nominal} \cup
        { [Nominal EXCEPT !.ntfs = n] : n \in {"other", "error"} } \cup
        { [Nominal EXCEPT !.createOK = FALSE] } \cup
        { [Nominal EXCEPT !.fault = f] : f \in Faults }

\* The regular files filepath.WalkDir hands to the callback, in lexical order.
WalkOrder(t, fault) ==
  IF fault.kind = "root" THEN <<>>
  ELSE SelectSeq(WalkSeq, LAMBDA p : t[p] # NoFile)

-----------------------------------------------------------------------------
(* createFile *)

\* An os.Create without the os.Stat test before it: an existing file is truncated.
createFileTruncating(d, path, createOK) ==
  IF ~createOK THEN [err |-> TRUE, disk |-> d]
  ELSE [err |-> FALSE, disk |-> [d EXCEPT ![path] = File(<<>>)]]

\* createFile: refuses an existing destination, creates an empty file otherwise.
createFile(d, path, createOK) ==
  IF d[path].exists THEN [err |-> TRUE, disk |-> d]
  ELSE IF ~createOK THEN [err |-> TRUE, disk |-> d]
  ELSE [err |-> FALSE, disk |-> [d EXCEPT ![path] = File(<<>>)]]

-----------------------------------------------------------------------------
(* update *)

\* A later assignment to a map key replaces an earlier one: the index of the
\* last element with the key.
LastIndexByPath(slice, k) ==
  CHOOSE i \in 1..Len(slice) :
    slice[i].Path = k /\ \A j \in (i + 1)..Len(slice) : slice[j].Path # k

LastIndexByFileID(slice, k) ==
  CHOOSE i \in 1..Len(slice) :
    slice[i].NTFSFileID = k /\ \A j \in (i + 1)..Len(slice) : slice[j].NTFSFileID # k

\* oldManifestMapByPath[fileInfo.Path] = fileInfo, for each record in order.
oldManifestMapByPath(slice) ==
  [k \in {slice[i].Path : i \in 1..Len(slice)} |->
     slice[LastIndexByPath(slice, k)]]

\* oldManifestMapByFileID[fileInfo.NTFSFileID] = fileInfo, for each record in order.
oldManifestMapByFileID(slice) ==
  [k \in {slice[i].NTFSFileID : i \in 1..Len(slice)} |->
     slice[LastIndexByFileID(slice, k)]]

\* A comparison of the times at full precision instead of whole seconds.
condition1FullPrecision(byPath, relativePath, f) ==
  /\ relativePath \in DOMAIN byPath
  /\ [sec |-> f.sec, frac |-> f.frac] = byPath[relativePath].ModifiedTime
  /\ f.size = byPath[relativePath].Size

\* condition1: the file is unchanged and unmoved.
condition1(byPath, relativePath, f) ==
  /\ relativePath \in DOMAIN byPath
  /\ Unix(f) = Unix(byPath[relativePath].ModifiedTime)
  /\ f.size = byPath[relativePath].Size

\* condition2: the file is unchanged but moved.
condition2(byFileID, f) ==
  /\ f.id \in DOMAIN byFileID
  /\ Unix(f) = Unix(byFileID[f.id].ModifiedTime)
  /\ f.size = byFileID[f.id].Size

\* The stable-id match tried before the path match.
updateFileInfoIdFirst(byPath, byFileID, relativePath, f) ==
  IF condition2(byFileID, f) THEN [byFileID[f.id] EXCEPT !.Path = relativePath]
  ELSE IF condition1(byPath, relativePath, f) THEN byPath[relativePath]
  ELSE FileInfo(relativePath, [sec |-> f.sec, frac |-> f.frac], f.size,
                calculateMD5(f), f.id)

\* The record of a moved file reused with the path it had.
updateFileInfoKeepPath(byPath, byFileID, relativePath, f) ==
  IF condition1(byPath, relativePath, f) THEN byPath[relativePath]
  ELSE IF condition2(byFileID, f) THEN byFileID[f.id]
  ELSE FileInfo(relativePath, [sec |-> f.sec, frac |-> f.frac], f.size,
                calculateMD5(f), f.id)

\* The record update makes for one file that needs no hash, or the fresh one.
updateFileInfo(byPath, byFileID, relativePath, f) ==
  IF condition1(byPath, relativePath, f) THEN byPath[relativePath]
  ELSE IF condition2(byFileID, f) THEN [byFileID[f.id] EXCEPT !.Path = relativePath]
  ELSE FileInfo(relativePath, [sec |-> f.sec, frac |-> f.frac], f.size,
                calculateMD5(f), f.id)

\* calculateMD5 is called in the last branch only.
updateNeedsHash(byPath, byFileID, relativePath, f) ==
  ~condition1(byPath, relativePath, f) /\ ~condition2(byFileID, f)

\* The WalkDir callback of update applied to the files from the i-th on.
\* acc: the records appended so far, the files whose bytes were read, whether
\* the process has panicked.
RECURSIVE updateWalk(_, _, _, _, _, _, _)
updateWalk(t, fault, byPath, byFileID, order, i, acc) ==
  IF i > Len(order) \/ acc.panic THEN acc
  ELSE
    LET p == order[i]
        f == t[p]
        faulty == fault.path = p
    IN
    IF faulty /\ fault.kind = "stat"
    THEN updateWalk(t, fault, byPath, byFileID, order, i + 1, acc)
    ELSE IF faulty /\ fault.kind = "open"
    THEN [acc EXCEPT !.panic = TRUE]
    ELSE IF ~updateNeedsHash(byPath, byFileID, p, f)
    THEN updateWalk(t, fault, byPath, byFileID, order, i + 1,
                    [acc EXCEPT !.slice = Append(@, updateFileInfo(byPath, byFileID, p, f))])
    ELSE IF faulty /\ fault.kind = "read"
    THEN [acc EXCEPT !.panic = TRUE, !.hashed = @ \cup {p}]
    ELSE updateWalk(t, fault, byPath, byFileID, order, i + 1,
                    [acc EXCEPT !.slice = Append(@, updateFileInfo(byPath, byFileID, p, f)),
                                !.hashed = @ \cup {p}])

\* What the last command did: its arguments, how it ended, whether it
\* reported success, the files whose bytes it read.  A command that stops
\* before createFile succeeds has touched nothing its arguments name.
NoRun == [cmd |-> "none", old |-> "", new |-> "", outcome |-> "none", success |-> FALSE,
          hashed |-> {}, fault |-> NoFault]

Stopped(cmd, outcome) == [NoRun EXCEPT !.cmd = cmd, !.outcome = outcome]

Ran(cmd, old, new, outcome, hashed, fault) ==
  [cmd |-> cmd, old |-> old, new |-> new, outcome |-> outcome, success |-> outcome = "ok",
   hashed |-> hashed, fault |-> fault]

\* update(directoryPath, oldManifestPath, newManifestPath): the disk it leaves
\* and what it did.
update(t, d, old, new, env) ==
  IF env.ntfs = "error"
  THEN [disk |-> d, run |-> Stopped("update", "fs_error")]
  ELSE IF env.ntfs # "ntfs"
  THEN [disk |-> d, run |-> Stopped("update", "not_ntfs")]
  ELSE
    LET cf == createFile(d, new, env.createOK) IN
    IF cf.err
    THEN [disk |-> d, run |-> Stopped("update", "create_error")]
    ELSE
      LET oldFile == cf.disk[old]
          rd == readManifest(oldFile)
      IN
      IF rd.err
      THEN [disk |-> cf.disk,
            run |-> Ran("update", old, new, "read_error", {}, env.fault)]
      ELSE
        LET byPath == oldManifestMapByPath(rd.slice)
            byFileID == oldManifestMapByFileID(rd.slice)
            w == updateWalk(t, env.fault, byPath, byFileID, WalkOrder(t, env.fault), 1,
                            [slice |-> <<>>, hashed |-> {}, panic |-> FALSE])
            wr == writeManifest(w.slice)
        IN
        IF w.panic
        THEN [disk |-> cf.disk,
              run |-> Ran("update", old, new, "panic", w.hashed, env.fault)]
        ELSE IF wr.err
        THEN [disk |-> cf.disk,
              run |-> Ran("update", old, new, "write_error", w.hashed, env.fault)]
        ELSE [disk |-> [cf.disk EXCEPT ![new] = File(wr.bytes)],
              run |-> Ran("update", old, new, "ok", w.hashed, env.fault)]

-----------------------------------------------------------------------------
(* create *)

\* The WalkDir callback of create applied to the files from the i-th on.
RECURSIVE createWalk(_, _, _, _, _)
createWalk(t, fault, order, i, acc) ==
  IF i > Len(order) \/ acc.panic THEN acc
  ELSE
    LET p == order[i]
        f == t[p]
        faulty == fault.path = p
    IN
    IF faulty /\ fault.kind = "stat"
    THEN createWalk(t, fault, order, i + 1, acc)
    ELSE IF faulty /\ fault.kind \in {"open", "read"}
    THEN [acc EXCEPT !.panic = TRUE, !.hashed = @ \cup {p}]
    ELSE createWalk(t, fault, order, i + 1,
                    [acc EXCEPT !.slice = Append(@, FileInfo(p, [sec |-> f.sec, frac |-> f.frac],
                                                            f.size, calculateMD5(f), f.id)),
                                !.hashed = @ \cup {p}])

\* A create that makes the destination file before it asks for the file system.
createBeforeCheck(t, d, new, env) ==
  LET cf == createFile(d, new, env.createOK) IN
  IF cf.err
  THEN [disk |-> d, run |-> Stopped("create", "create_error")]
  ELSE IF env.ntfs = "error"
  THEN [disk |-> cf.disk, run |-> Stopped("create", "fs_error")]
  ELSE IF env.ntfs # "ntfs"
  THEN [disk |-> cf.disk, run |-> Stopped("create", "not_ntfs")]
  ELSE
    LET w == createWalk(t, env.fault, WalkOrder(t, env.fault), 1,
                        [slice |-> <<>>, hashed |-> {}, panic |-> FALSE])
        wr == writeManifest(SortByPath(w.slice))
    IN
    IF w.panic
    THEN [disk |-> cf.disk,
          run |-> Ran("create", "", new, "panic", w.hashed, env.fault)]
    ELSE IF wr.err
    THEN [disk |-> cf.disk,
          run |-> Ran("create", "", new, "write_error", w.hashed, env.fault)]
    ELSE [disk |-> [cf.disk EXCEPT ![new] = File(wr.bytes)],
          run |-> Ran("create", "", new, "ok", w.hashed, env.fault)]

\* create(directoryPath, manifestPath)
create(t, d, new, env) ==
  IF env.ntfs = "error"
  THEN [disk |-> d, run |-> Stopped("create", "fs_error")]
  ELSE IF env.ntfs # "ntfs"
  THEN [disk |-> d, run |-> Stopped("create", "not_ntfs")]
  ELSE
    LET cf == createFile(d, new, env.createOK) IN
    IF cf.err
    THEN [disk |-> d, run |-> Stopped("create", "create_error")]
    ELSE
      LET w == createWalk(t, env.fault, WalkOrder(t, env.fault), 1,
                          [slice |-> <<>>, hashed |-> {}, panic |-> FALSE])
          wr == writeManifest(SortByPath(w.slice))
      IN
      IF w.panic
      THEN [disk |-> cf.disk,
            run |-> Ran("create", "", new, "panic", w.hashed, env.fault)]
      ELSE IF wr.err
      THEN [disk |-> cf.disk,
            run |-> Ran("create", "", new, "write_error", w.hashed, env.fault)]
      ELSE [disk |-> [cf.disk EXCEPT ![new] = File(wr.bytes)],
            run |-> Ran("create", "", new, "ok", w.hashed, env.fault)]

-----------------------------------------------------------------------------
(* The state machine *)

NotFresh == [by |-> "none", fault |-> NoFault]

\* No compare command is running.
NoCmp == [pc |-> "off"]

\* No runCreate command is running.
NoRc == [pc |-> "off"]

\* The manifest codec is not under test.
NoCodec == [pc |-> "off"]

\* No verify command is running.
NoVf == [pc |-> "off"]

\* No runUpdate command is running.
NoRu == [pc |-> "off"]

Init ==
  /\ tree \in Trees
  /\ disk = [m \in ManifestNames |-> Absent]
  /\ run = NoRun
  /\ fresh = [m \in ManifestNames |-> NotFresh]
  /\ events = 0
  /\ cmp = NoCmp
  /\ rc = NoRc
  /\ codec = NoCodec
  /\ vf = NoVf
  /\ ru = NoRu

\* fresh[m]: m was written by the named command on the tree as it is now.
Written(r) ==
  IF r.success THEN [fresh EXCEPT ![r.new] = [by |-> r.cmd, fault |-> r.fault]] ELSE fresh

\* The file names a command line may name: the files on disk and one name
\* with no file behind it (all such names behave alike).
Nameable ==
  {m \in ManifestNames : disk[m].exists} \cup
  {ManifestSeq[i] : i \in {j \in 1..Len(ManifestSeq) :
                             /\ ~disk[ManifestSeq[j]].exists
                             /\ \A k \in 1..(j - 1) : disk[ManifestSeq[k]].exists}}

\* The manifest a regular update starts from: the last one written whole
\* (a file that createFile made and writeManifest never filled is empty).
Whole(m) == Len(disk[m].bytes) > 0

Latest(m) ==
  /\ Whole(m)
  /\ \A i, j \in 1..Len(ManifestSeq) :
       (ManifestSeq[i] = m /\ j > i) => ~Whole(ManifestSeq[j])

\* The regular session: create once on a disk without manifests, then update
\* from the latest manifest to a new file, in a nominal environment.
RegularCreate(new, env) ==
  env = Nominal /\ \A m \in ManifestNames : ~disk[m].exists

RegularUpdate(old, new, env) ==
  env = Nominal /\ Latest(old) /\ ~disk[new].exists

\* Any other command is an event: an adverse environment for a regular
\* command line, or an irregular command line in a nominal environment.
Upset(regular, regularIn, env) ==
  /\ ~regular => /\ events < MaxEvents
                 /\ env = Nominal \/ regularIn
  /\ events' = IF regular THEN events ELSE events + 1

Create(new, env) ==
  LET res == create(tree, disk, new, env) IN
  /\ Upset(RegularCreate(new, env), RegularCreate(new, Nominal), env)
  /\ disk' = res.disk
  /\ run' = res.run
  /\ fresh' = Written(res.run)
  /\ UNCHANGED <<tree, cmp, rc, codec, vf, ru>>

Update(old, new, env) ==
  LET res == update(tree, disk, old, new, env) IN
  /\ Upset(RegularUpdate(old, new, env), RegularUpdate(old, new, Nominal), env)
  /\ disk' = res.disk
  /\ run' = res.run
  /\ fresh' = Written(res.run)
  /\ UNCHANGED <<tree, cmp, rc, codec, vf, ru>>

\* Files are added, removed, renamed, rewritten between two commands.
FsChange ==
  /\ events < MaxEvents
  /\ tree' \in Trees \ {tree}
  /\ events' = events + 1
  /\ run' = NoRun
  /\ fresh' = [m \in ManifestNames |-> NotFresh]
  /\ UNCHANGED <<disk, cmp, rc, codec, vf, ru>>

Next ==
  \/ \E new \in Nameable, env \in Envs : Create(new, env)
  \/ \E old, new \in Nameable, env \in Envs : Update(old, new, env)
  \/ FsChange

Spec == Init /\ [][Next]_vars

\* Commands only, on a tree that stays as it is: the sessions in which the
\* disk and the environment alone decide what a command does.
NextCommands ==
  \/ \E new \in Nameable, env \in Envs : Create(new, env)
  \/ \E old, new \in Nameable, env \in Envs : Update(old, new, env)

SpecCommands == Init /\ [][NextCommands]_vars

\* The old manifest of a failed update, corrected by hand before the command
\* is run again: a manifest of the tree as it is, as create writes it.
CorrectedManifest(t) ==
  LET nothing == [m \in ManifestNames |-> Absent] IN
  create(t, nothing, ManifestSeq[1], Nominal).disk[ManifestSeq[1]]

\* The user corrects the manifest that the last update could not read.  The
\* command line of that update stays what it was.
Repair(m) ==
  /\ run.cmd = "update"
  /\ run.outcome = "read_error"
  /\ m = run.old
  /\ disk[m] # CorrectedManifest(tree)
  /\ disk' = [disk EXCEPT ![m] = CorrectedManifest(tree)]
  /\ UNCHANGED <<tree, run, fresh, events, cmp, rc, codec, vf, ru>>

\* Updates with any two file names, and the corrections between them.
NextRetry ==
  \/ \E old, new \in ManifestNames, env \in Envs : Update(old, new, env)
  \/ \E m \in ManifestNames : Repair(m)

SpecRetry == Init /\ [][NextRetry]_vars

-----------------------------------------------------------------------------
(* compare *)

\* A file of a compared directory: its modification time, its size and its
\* bytes (body).  The first is the reference; the others differ from it in
\* the sub-second part of the time only, in the second of the time only, in
\* the size only, in the bytes only, and in all of them.
NoEntry == [size |-> -1]

CmpFiles ==
  { [sec |-> 1, frac |-> 0, size |-> 10, body |-> 1],
    [sec |-> 1, frac |-> 5, size |-> 10, body |-> 1],
    [sec |-> 2, frac |-> 0, size |-> 10, body |-> 1],
    [sec |-> 1, frac |-> 0, size |-> 20, body |-> 1],
    [sec |-> 1, frac |-> 0, size |-> 10, body |-> 2],
    [sec |-> 2, frac |-> 5, size |-> 20, body |-> 2] }

CmpDirs == [Paths -> CmpFiles \cup {NoEntry}]

\* What can go wrong in one walk: nothing, the root, or one file's Info or
\* (strict only) content read.
CmpFaults ==
  {NoFault, [kind |-> "root", path |-> ""]} \cup
  {[kind |-> k, path |-> p] : k \in {"stat", "read"}, p \in Paths}

\* The FileInfo of the main package has no stable id.
CmpFileInfo(path, f, strict) ==
  [Path |-> path,
   ModifiedTime |-> [sec |-> f.sec, frac |-> f.frac],
   Size |-> f.size,
   Hash |-> IF strict THEN calculateMD5(f) ELSE <<>>]

\* walkDir(dir, strict): the callback applied to the files from the i-th on;
\* the first error ends the walk.
RECURSIVE walkDirFrom(_, _, _, _, _)
walkDirFrom(d, strict, fault, i, acc) ==
  IF i > Len(WalkSeq) THEN [err |-> FALSE, slice |-> acc]
  ELSE
    LET p == WalkSeq[i] IN
    IF d[p] = NoEntry THEN walkDirFrom(d, strict, fault, i + 1, acc)
    ELSE IF fault.path = p /\ fault.kind = "stat"
    THEN [err |-> TRUE, slice |-> <<>>]
    ELSE IF fault.path = p /\ fault.kind = "read" /\ strict
    THEN [err |-> TRUE, slice |-> <<>>]
    ELSE walkDirFrom(d, strict, fault, i + 1, Append(acc, CmpFileInfo(p, d[p], strict)))

walkDir(d, strict, fault) ==
  IF fault.kind = "root" THEN [err |-> TRUE, slice |-> <<>>]
  ELSE walkDirFrom(d, strict, fault, 1, <<>>)

fileInfoSliceToMap(slice) ==
  [p \in {slice[i].Path : i \in 1..Len(slice)} |->
     slice[LastIndexByPath(slice, p)]]

Output(path, tag, reason) == [Path |-> path, Msg |-> <<tag, path, reason>>]

\* The body of the first loop for one key of fileInfoMap1, with the output
\* appended inside the size branch, as the code has it.
compareBoth(map1, map2, strict, path) ==
  LET fi1 == map1[path]
      fi2 == map2[path]
      mtimeEqual == Unix(fi1.ModifiedTime) = Unix(fi2.ModifiedTime)
      sizeEqual == fi1.Size = fi2.Size
      hashEqual == ~strict \/ fi1.Hash = fi2.Hash
      reason == (IF ~mtimeEqual THEN <<"modified time differs">> ELSE <<>>) \o
                <<"size differs">> \o
                (IF ~hashEqual THEN <<"hash differs">> ELSE <<>>)
  IN
  IF ~mtimeEqual \/ ~sizeEqual \/ ~hashEqual
  THEN IF ~sizeEqual THEN <<Output(path, "[=/=]", reason)>> ELSE <<>>
  ELSE <<>>

compareLeft(map1, map2, strict, path) ==
  IF path \notin DOMAIN map2
  THEN <<Output(path, "[<--]", <<>>)>>
  ELSE compareBoth(map1, map2, strict, path)

\* The body of the second loop for one key of fileInfoMap2.
compareRightAlways(map1, path) ==
  <<Output(path, "[-->]", <<>>)>>

compareRight(map1, path) ==
  IF path \notin DOMAIN map1
  THEN <<Output(path, "[-->]", <<>>)>>
  ELSE <<>>

\* sort.Slice by Path.
RECURSIVE InsertOutput(_, _)
InsertOutput(sorted, out) ==
  IF sorted = <<>> THEN <<out>>
  ELSE IF PathLess(out.Path, Head(sorted).Path) THEN <<out>> \o sorted
  ELSE <<Head(sorted)>> \o InsertOutput(Tail(sorted), out)

\* Outputs printed in the order the loops appended them.
SortOutputsAsAppended(outputs) == outputs

RECURSIVE SortOutputs(_)
SortOutputs(outputs) ==
  IF outputs = <<>> THEN <<>>
  ELSE InsertOutput(SortOutputs(SubSeq(outputs, 1, Len(outputs) - 1)),
                    outputs[Len(outputs)])

\* runCompare, step by step.  todo holds the keys a range loop has yet to
\* visit (a Go map is ranged over in no fixed order); printed the lines on
\* standard output.
InitCompare ==
  /\ tree = [p \in Paths |-> NoFile]
  /\ disk = [m \in ManifestNames |-> Absent]
  /\ run = NoRun
  /\ fresh = [m \in ManifestNames |-> NotFresh]
  /\ events = 0
  /\ rc = NoRc
  /\ codec = NoCodec
  /\ vf = NoVf
  /\ ru = NoRu
  /\ \E d1, d2 \in CmpDirs, strict \in BOOLEAN :
       cmp = [pc |-> "start", dir1 |-> d1, dir2 |-> d2, strict |-> strict,
              map1 |-> <<>>, map2 |-> <<>>, todo |-> {},
              outputs |-> <<>>, printed |-> <<>>]

CompareWalk(fault1, fault2) ==
  LET w1 == walkDir(cmp.dir1, cmp.strict, fault1)
      w2 == walkDir(cmp.dir2, cmp.strict, fault2)
      map1 == fileInfoSliceToMap(w1.slice)
  IN
  /\ cmp.pc = "start"
  /\ cmp' = IF w1.err \/ w2.err
            THEN [cmp EXCEPT !.pc = "error"]
            ELSE [cmp EXCEPT !.pc = "loop1",
                             !.map1 = map1,
                             !.map2 = fileInfoSliceToMap(w2.slice),
                             !.todo = DOMAIN map1]
  /\ UNCHANGED <<tree, disk, run, fresh, events, rc, codec, vf, ru>>

CompareLoop1(path) ==
  /\ cmp.pc = "loop1"
  /\ path \in cmp.todo
  /\ cmp' = [cmp EXCEPT !.outputs = @ \o compareLeft(cmp.map1, cmp.map2, cmp.strict, path),
                        !.todo = @ \ {path}]
  /\ UNCHANGED <<tree, disk, run, fresh, events, rc, codec, vf, ru>>

CompareLoop1Done ==
  /\ cmp.pc = "loop1"
  /\ cmp.todo = {}
  /\ cmp' = [cmp EXCEPT !.pc = "loop2", !.todo = DOMAIN cmp.map2]
  /\ UNCHANGED <<tree, disk, run, fresh, events, rc, codec, vf, ru>>

CompareLoop2(path) ==
  /\ cmp.pc = "loop2"
  /\ path \in cmp.todo
  /\ cmp' = [cmp EXCEPT !.outputs = @ \o compareRight(cmp.map1, path),
                        !.todo = @ \ {path}]
  /\ UNCHANGED <<tree, disk, run, fresh, events, rc, codec, vf, ru>>

ComparePrint ==
  /\ cmp.pc = "loop2"
  /\ cmp.todo = {}
  /\ cmp' = [cmp EXCEPT !.pc = "done", !.printed = SortOutputs(cmp.outputs)]
  /\ UNCHANGED <<tree, disk, run, fresh, events, rc, codec, vf, ru>>

NextCompare ==
  \/ \E fault1, fault2 \in CmpFaults : CompareWalk(fault1, fault2)
  \/ \E path \in Paths : CompareLoop1(path)
  \/ CompareLoop1Done
  \/ \E path \in Paths : CompareLoop2(path)
  \/ ComparePrint

SpecCompare == InitCompare /\ [][NextCompare]_vars

-----------------------------------------------------------------------------
(* runCreate: the create command of the main package, which asks before it   *)
(* overwrites and scans with a pool of workers.                              *)

\* runtime.NumCPU(): the number of workers and the capacity of
\* filepathWalkDataChan.
NumCPU == 2

Workers == 1..NumCPU

\* The manifest path of the command line, and the file found there when one
\* exists: a manifest written earlier.
RcManifestPath == "m0.csv"

RcOldFile == File(<<<<"Path", "ModifiedTime", "Size", "Hash">>>>)

\* The directories filepath.Walk hands to the callback besides the files.
RcDirs == {".", "a"}

\* toCSVField applied to the four fields of a record (main package writer).
mainManifestLine(fi) ==
  <<fi.Path, FormatInt(Unix(fi.ModifiedTime)), FormatInt(fi.Size), fi.Hash>>

\* writeManifest of the main package: the header, then the records in the
\* order given.
mainWriteManifest(slice) ==
  <<<<"Path", "ModifiedTime", "Size", "Hash">>>> \o
  [i \in 1..Len(slice) |-> mainManifestLine(slice[i])]

\* fileInfoSlice = append(fileInfoSlice, fileInfo)
rcCollect(slice, fileInfo) == Append(slice, fileInfo)

\* The order of fileInfoSlice left as the collector received it.
rcSortUnsorted(slice) == slice

\* sort.Slice(fileInfoSlice, ...) by Path
rcSort(slice) == SortOutputs(slice)

\* A directory with more files than the channel and the workers hold
\* together.
RcManyPathSeq == <<"f1", "f2", "f3", "f4", "f5">>
RcManyPaths == {RcManyPathSeq[i] : i \in 1..Len(RcManyPathSeq)}
RcAllPaths == Paths \cup RcManyPaths

InitRunCreate ==
  /\ tree = [p \in Paths |-> NoFile]
  /\ disk = [m \in ManifestNames |-> Absent]
  /\ run = NoRun
  /\ fresh = [m \in ManifestNames |-> NotFresh]
  /\ events = 0
  /\ cmp = NoCmp
  /\ codec = NoCodec
  /\ vf = NoVf
  /\ ru = NoRu
  /\ \E d \in CmpDirs, dest \in {Absent, RcOldFile}, fault \in Paths \cup {""},
        relFault \in Paths \cup {""} :
       /\ fault = "" \/ relFault = ""
       /\ rc = [pc |-> "start", dir |-> d, md5Fault |-> fault, relFault |-> relFault,
                disk |-> [m \in {RcManifestPath} |-> dest],
                existed |-> dest.exists, answer |-> "",
                todo |-> {}, chan |-> <<>>, closed |-> FALSE, walkErr |-> FALSE,
                worker |-> [w \in Workers |-> [pc |-> "off"]],
                collector |-> [pc |-> "off"], closedFileInfo |-> FALSE,
                fileInfoSlice |-> <<>>, received |-> <<>>]

\* Lines 36-54: os.Stat, the prompt when the file exists, createFile; then the
\* channels and goroutines are set up.
RcStart(answer) ==
  LET cf == createFile(rc.disk, RcManifestPath, TRUE) IN
  /\ rc.pc = "start"
  /\ answer \in (IF rc.existed THEN {"y", "n"} ELSE {""})
  /\ rc' = IF rc.existed /\ answer # "y"
           THEN [rc EXCEPT !.pc = "cancelled", !.answer = answer]
           ELSE IF cf.err
           THEN [rc EXCEPT !.pc = "create_error", !.answer = answer]
           ELSE [rc EXCEPT !.pc = "walk", !.answer = answer, !.disk = cf.disk,
                           !.todo = RcDirs \cup {p \in DOMAIN rc.dir : rc.dir[p] # NoEntry},
                           !.worker = [w \in Workers |-> [pc |-> "range"]],
                           !.collector = [pc |-> "range"]]
  /\ UNCHANGED <<tree, disk, run, fresh, events, cmp, codec, vf, ru>>

\* The Walk callback for a directory: nothing is sent.
RcWalkDir(p) ==
  /\ rc.pc = "walk"
  /\ p \in rc.todo \cap RcDirs
  /\ rc' = [rc EXCEPT !.todo = @ \ {p}]
  /\ UNCHANGED <<tree, disk, run, fresh, events, cmp, codec, vf, ru>>

\* A send that gives up when the channel is full.
RcWalkFileDropping(p) ==
  /\ rc.pc = "walk"
  /\ p \in rc.todo \ RcDirs
  /\ p # rc.relFault
  /\ rc' = [rc EXCEPT !.todo = @ \ {p},
                      !.chan = IF Len(@) < NumCPU THEN Append(@, p) ELSE @]
  /\ UNCHANGED <<tree, disk, run, fresh, events, cmp, codec, vf, ru>>

\* The Walk callback for a regular file: the send blocks while the channel
\* is full.
RcWalkFile(p) ==
  /\ rc.pc = "walk"
  /\ p \in rc.todo \ RcDirs
  /\ p # rc.relFault
  /\ Len(rc.chan) < NumCPU
  /\ rc' = [rc EXCEPT !.todo = @ \ {p}, !.chan = Append(@, p)]
  /\ UNCHANGED <<tree, disk, run, fresh, events, cmp, codec, vf, ru>>

\* The Walk callback returns an error (filepath.Rel failed): Walk stops and
\* returns it.
RcWalkError(p) ==
  /\ rc.pc = "walk"
  /\ p \in rc.todo \ RcDirs
  /\ p = rc.relFault
  /\ rc' = [rc EXCEPT !.todo = {}, !.walkErr = TRUE]
  /\ UNCHANGED <<tree, disk, run, fresh, events, cmp, codec, vf, ru>>

\* A main goroutine that waits for the workers without closing the channel.
RcWalkEndNoClose ==
  /\ rc.pc = "walk"
  /\ rc.todo = {}
  /\ rc' = [rc EXCEPT !.pc = "wait"]
  /\ UNCHANGED <<tree, disk, run, fresh, events, cmp, codec, vf, ru>>

\* Walk has returned: close(filepathWalkDataChan), then wg.Wait().
RcWalkEnd ==
  /\ rc.pc = "walk"
  /\ rc.todo = {}
  /\ rc' = [rc EXCEPT !.pc = "wait", !.closed = TRUE]
  /\ UNCHANGED <<tree, disk, run, fresh, events, cmp, codec, vf, ru>>

RcRunning == rc.pc \in {"walk", "wait", "wait2"}

\* A worker receives a path and computes the record; a failing calculateMD5
\* panics.
RcWorkerReceive(w) ==
  /\ RcRunning
  /\ rc.worker[w].pc = "range"
  /\ Len(rc.chan) > 0
  /\ LET p == Head(rc.chan) IN
     rc' = IF p = rc.md5Fault
           THEN [rc EXCEPT !.pc = "panic", !.chan = Tail(@)]
           ELSE [rc EXCEPT !.chan = Tail(@),
                           !.worker[w] = [pc |-> "send",
                                          fileInfo |-> CmpFileInfo(p, rc.dir[p], TRUE)]]
  /\ UNCHANGED <<tree, disk, run, fresh, events, cmp, codec, vf, ru>>

\* fileInfoChan <- fileInfo meets the collector's receive (the channel has no
\* buffer).
RcWorkerSend(w) ==
  /\ RcRunning
  /\ rc.worker[w].pc = "send"
  /\ rc.collector.pc = "range"
  /\ rc' = [rc EXCEPT !.worker[w] = [pc |-> "range"],
                      !.collector = [pc |-> "append", fileInfo |-> rc.worker[w].fileInfo]]
  /\ UNCHANGED <<tree, disk, run, fresh, events, cmp, codec, vf, ru>>

\* The range loop of a worker ends on the closed, drained channel: wg.Done().
RcWorkerExit(w) ==
  /\ RcRunning
  /\ rc.worker[w].pc = "range"
  /\ rc.closed /\ Len(rc.chan) = 0
  /\ rc' = [rc EXCEPT !.worker[w] = [pc |-> "done"]]
  /\ UNCHANGED <<tree, disk, run, fresh, events, cmp, codec, vf, ru>>

\* The collector appends the record it received.
RcCollectorAppend ==
  /\ RcRunning
  /\ rc.collector.pc = "append"
  /\ rc' = [rc EXCEPT !.fileInfoSlice = rcCollect(@, rc.collector.fileInfo),
                      !.collector = [pc |-> "range"]]
  /\ UNCHANGED <<tree, disk, run, fresh, events, cmp, codec, vf, ru>>

\* wg.Wait() returns; close(fileInfoChan), then wg2.Wait().
RcCloseFileInfo ==
  /\ rc.pc = "wait"
  /\ \A w \in Workers : rc.worker[w].pc = "done"
  /\ rc' = [rc EXCEPT !.pc = "wait2", !.closedFileInfo = TRUE]
  /\ UNCHANGED <<tree, disk, run, fresh, events, cmp, codec, vf, ru>>

\* The range loop of the collector ends on the closed channel: wg2.Done().
RcCollectorExit ==
  /\ RcRunning
  /\ rc.collector.pc = "range"
  /\ rc.closedFileInfo
  /\ rc' = [rc EXCEPT !.collector = [pc |-> "done"]]
  /\ UNCHANGED <<tree, disk, run, fresh, events, cmp, codec, vf, ru>>

\* wg2.Wait() returns; the error of the walk is reported, or the slice is
\* sorted and written.  received keeps the order in which the collector got
\* the records.
RcFinish ==
  /\ rc.pc = "wait2"
  /\ rc.collector.pc = "done"
  /\ LET sorted == rcSort(rc.fileInfoSlice) IN
     rc' = IF rc.walkErr
           THEN [rc EXCEPT !.pc = "walk_error"]
           ELSE [rc EXCEPT !.pc = "done", !.fileInfoSlice = sorted,
                           !.received = rc.fileInfoSlice,
                           !.disk[RcManifestPath] = File(mainWriteManifest(sorted))]
  /\ UNCHANGED <<tree, disk, run, fresh, events, cmp, codec, vf, ru>>

NextRunCreate ==
  \/ \E answer \in {"", "y", "n"} : RcStart(answer)
  \/ \E p \in RcDirs : RcWalkDir(p)
  \/ \E p \in RcAllPaths : RcWalkFile(p)
  \/ \E p \in RcAllPaths : RcWalkError(p)
  \/ RcWalkEnd
  \/ \E w \in Workers : RcWorkerReceive(w)
  \/ \E w \in Workers : RcWorkerSend(w)
  \/ \E w \in Workers : RcWorkerExit(w)
  \/ RcCollectorAppend
  \/ RcCloseFileInfo
  \/ RcCollectorExit
  \/ RcFinish

SpecRunCreate == InitRunCreate /\ [][NextRunCreate]_vars

\* runCreate on the directory of many files, with no file at the manifest
\* path.
InitPipeline ==
  /\ tree = [p \in Paths |-> NoFile]
  /\ disk = [m \in ManifestNames |-> Absent]
  /\ run = NoRun
  /\ fresh = [m \in ManifestNames |-> NotFresh]
  /\ events = 0
  /\ cmp = NoCmp
  /\ codec = NoCodec
  /\ vf = NoVf
  /\ ru = NoRu
  /\ \E fault \in {"", "f3"}, relFault \in {"", "f4"} :
       /\ fault = "" \/ relFault = ""
       /\ rc = [pc |-> "start",
                dir |-> [p \in RcManyPaths |-> [sec |-> 1, frac |-> 0, size |-> 10, body |-> 1]],
                md5Fault |-> fault, relFault |-> relFault,
                disk |-> [m \in {RcManifestPath} |-> Absent],
                existed |-> FALSE, answer |-> "",
                todo |-> {}, chan |-> <<>>, closed |-> FALSE, walkErr |-> FALSE,
                worker |-> [w \in Workers |-> [pc |-> "off"]],
                collector |-> [pc |-> "off"], closedFileInfo |-> FALSE,
                fileInfoSlice |-> <<>>, received |-> <<>>]

SpecPipeline == InitPipeline /\ [][NextRunCreate]_vars

\* The steps of the pipeline: everything runCreate does between the answer
\* of the user and the return of the second wait.
RcPipelineStep ==
  \/ \E p \in RcDirs : RcWalkDir(p)
  \/ \E p \in RcAllPaths : RcWalkFile(p)
  \/ \E p \in RcAllPaths : RcWalkError(p)
  \/ RcWalkEnd
  \/ \E w \in Workers : RcWorkerReceive(w)
  \/ \E w \in Workers : RcWorkerSend(w)
  \/ \E w \in Workers : RcWorkerExit(w)
  \/ RcCollectorAppend
  \/ RcCloseFileInfo
  \/ RcCollectorExit

\* The Go scheduler runs a goroutine that can take a step: the pipeline does
\* not stop while one of its goroutines is able to go on.
RcFairness == WF_vars(RcPipelineStep)

\* runCreate on any of the directories, under fair scheduling.
InitRunCreateAny == InitRunCreate \/ InitPipeline

SpecRunCreateFair == InitRunCreateAny /\ [][NextRunCreate]_vars /\ RcFairness

-----------------------------------------------------------------------------
(* The manifest codec on its own: a list of records is written by           *)
(* writeManifest into a file and the file is read back by readManifest.      *)

MaxRecords == 2

\* Records as a scan produces them (a time with a sub-second part) or as a
\* manifest holds them; paths with a leading space and with a comma, a time
\* before 1970, sizes and ids of one and two digits.
CodecRecords ==
  { FileInfo(" a", [sec |-> 12, frac |-> 0], 0, "0cc1", 0),
    FileInfo(" a", [sec |-> 1, frac |-> 5], 10, "9e10", 12),
    FileInfo("a,b", [sec |-> -1, frac |-> 0], 10, "0cc1", 12),
    FileInfo("a,b", [sec |-> 12, frac |-> 0], 0, "9e10", 1),
    FileInfo("a.txt", [sec |-> 0, frac |-> 0], 10, "9e10", 1),
    FileInfo("a.txt", [sec |-> -1, frac |-> 0], 1, "0cc1", 0),
    FileInfo("a/b.txt", [sec |-> 12, frac |-> 0], 1, "9e10", 12),
    FileInfo("a/b.txt", [sec |-> 1, frac |-> 5], 0, "0cc1", 1) }

CodecInputs == UNION { [1..n -> CodecRecords] : n \in 0..MaxRecords }

InitCodec ==
  /\ tree = [p \in Paths |-> NoFile]
  /\ disk = [m \in ManifestNames |-> Absent]
  /\ run = NoRun
  /\ fresh = [m \in ManifestNames |-> NotFresh]
  /\ events = 0
  /\ cmp = NoCmp
  /\ rc = NoRc
  /\ vf = NoVf
  /\ ru = NoRu
  /\ \E slice \in CodecInputs :
       codec = [pc |-> "input", slice |-> slice, err |-> FALSE, rows |-> <<>>,
                text |-> <<>>, out |-> [err |-> FALSE, slice |-> <<>>]]

\* writeManifest(file, fileInfoSlice) on an empty file.
CodecWrite ==
  /\ codec.pc = "input"
  /\ LET w == writeManifestText(codec.slice) IN
       codec' = [codec EXCEPT !.pc = IF w.err THEN "failed" ELSE "written",
                              !.err = w.err, !.rows = w.rows, !.text = w.text]
  /\ UNCHANGED <<tree, disk, run, fresh, events, cmp, rc, vf, ru>>

\* readManifest(manifestPath) on the file just written.
CodecRead ==
  /\ codec.pc = "written"
  /\ codec' = [codec EXCEPT !.pc = "read", !.out = readManifestText(codec.text)]
  /\ UNCHANGED <<tree, disk, run, fresh, events, cmp, rc, vf, ru>>

NextCodec == CodecWrite \/ CodecRead

SpecCodec == InitCodec /\ [][NextCodec]_vars

\* readManifest on a manifest file that anything may have written: the lines
\* of the file, as characters.
RecordLine(fields) == csvJoin(fields) \o <<"\n">>

\* A header of five names, and the header of the older format with four.
HeaderLines ==
  { RecordLine(RowChars(Header, TRUE)),
    RecordLine(RowChars(<<"Path", "ModifiedTime", "Size", "Hash">>, TRUE)) }

\* The line of a record, and lines with a size, a time or an id that is not
\* a number of its type, and a line of four fields.
DataLines ==
  { RecordLine(RowChars(ManifestLine(fi), FALSE)) : fi \in CodecRecords } \cup
  { RecordLine(<<Spell("a.txt"), <<"1">>, <<"x">>, Spell("0cc1"), <<"1">>>>),
    RecordLine(<<Spell("a.txt"), <<"1", ".", "5">>, <<"1">>, Spell("0cc1"), <<"1">>>>),
    RecordLine(<<Spell("a.txt"), <<"1">>, <<"1">>, Spell("0cc1"), <<"-", "1">>>>),
    RecordLine(<<Spell("a.txt"), <<"1">>, <<"1">>, Spell("0cc1")>>) }

RECURSIVE Concat(_)
Concat(lines) == IF Len(lines) = 0 THEN <<>> ELSE Head(lines) \o Concat(Tail(lines))

ManifestTexts ==
  {<<>>} \cup
  { h \o Concat(lines) :
      h \in HeaderLines, lines \in UNION { [1..n -> DataLines] : n \in 0..MaxRecords } }

InitReadFile ==
  /\ tree = [p \in Paths |-> NoFile]
  /\ disk = [m \in ManifestNames |-> Absent]
  /\ run = NoRun
  /\ fresh = [m \in ManifestNames |-> NotFresh]
  /\ events = 0
  /\ cmp = NoCmp
  /\ rc = NoRc
  /\ vf = NoVf
  /\ ru = NoRu
  /\ \E text \in ManifestTexts :
       codec = [pc |-> "file", slice |-> <<>>, err |-> FALSE, rows |-> <<>>,
                text |-> text, out |-> [err |-> FALSE, slice |-> <<>>]]

\* readManifest(manifestPath)
CodecReadFile ==
  /\ codec.pc = "file"
  /\ codec' = [codec EXCEPT !.pc = "fileread", !.out = readManifestText(codec.text)]
  /\ UNCHANGED <<tree, disk, run, fresh, events, cmp, rc, vf, ru>>

NextReadFile == CodecReadFile

SpecReadFile == InitReadFile /\ [][NextReadFile]_vars

-----------------------------------------------------------------------------
(* The older manifest codec of the main package: writeManifest formats each *)
(* line with toCSVField, readManifest scans the lines and splits them at    *)
(* the commas.                                                              *)

\* toCSVField: the string between quotes, its quotes doubled, when it has a
\* comma, a line break or a quote; the string itself otherwise.
toCSVField(field) ==
  IF \E i \in 1..Len(field) : field[i] \in {",", "\n", "\r", "\""}
  THEN <<"\"">> \o csvEscape(field) \o <<"\"">>
  ELSE field

\* fmt.Sprintf("%s,%s,%s,%s,%s\n", ...) of the five fields of a record.
sprintfLine(fi) ==
  toCSVField(Spell(fi.Path)) \o <<",">> \o
  toCSVField(FormatInt(Unix(fi.ModifiedTime))) \o <<",">> \o
  toCSVField(FormatInt(fi.Size)) \o <<",">> \o
  toCSVField(Spell(fi.Hash)) \o <<",">> \o
  toCSVField(FormatUint(fi.NTFSFileID)) \o <<"\n">>

\* writeManifest: the header line, then a line for every record in the order
\* given.
sprintfWriteManifest(slice) ==
  Spell("Path") \o <<",">> \o Spell("ModifiedTime") \o <<",">> \o Spell("Size") \o <<",">> \o
  Spell("Hash") \o <<",">> \o Spell("NtfsFileId") \o <<"\n">> \o
  Concat([i \in 1..Len(slice) |-> sprintfLine(slice[i])])

\* The k-th smallest member of a set of positions.
Kth(positions, k) ==
  CHOOSE x \in positions : Cardinality({ y \in positions : y < x }) = k - 1

\* bufio.Scanner with ScanLines: the lines of the text without their line
\* ends; a last line without a line end counts, an empty rest does not.
scanLines(text) ==
  LET ends == { i \in 1..Len(text) : text[i] = "\n" }
      starts == { i \in {1} \cup { e + 1 : e \in ends } : i <= Len(text) }
      lineAt(st) ==
        LET stop == IF \E e \in ends : e >= st
                    THEN Kth({ e \in ends : e >= st }, 1) ELSE Len(text) + 1
            line == SubSeq(text, st, stop - 1)
        IN  IF Len(line) > 0 /\ line[Len(line)] = "\r"
            THEN SubSeq(line, 1, Len(line) - 1) ELSE line
  IN  [k \in 1..Cardinality(starts) |-> lineAt(Kth(starts, k))]

\* strings.SplitN(line, ",", n): the pieces between the first n - 1 commas,
\* the last piece holding the rest of the line with its commas.
splitN(line, n) ==
  LET commas == { i \in 1..Len(line) : line[i] = "," }
      cuts == IF Cardinality(commas) < n THEN Cardinality(commas) ELSE n - 1
      from(k) == IF k = 1 THEN 1 ELSE Kth(commas, k - 1) + 1
      to(k) == IF k = cuts + 1 THEN Len(line) ELSE Kth(commas, k) - 1
  IN  [k \in 1..(cuts + 1) |-> SubSeq(line, from(k), to(k))]

\* One line of the manifest: five pieces, of which the second, the third and
\* the fifth are numbers.  The first and the fourth are taken as they stand.
splitParseLine(line) ==
  LET fields == splitN(line, 5) IN
  IF Len(fields) # 5 THEN [ok |-> FALSE, fi |-> FileInfo("", [sec |-> 0, frac |-> 0], 0, "", 0)]
  ELSE
    LET t == ParseInt(fields[2])
        n == ParseInt(fields[3])
        id == ParseUint(fields[5])
    IN  [ok |-> t.ok /\ n.ok /\ id.ok,
         fi |-> FileInfo(Unspell(fields[1]), [sec |-> t.val, frac |-> 0], n.val,
                         Unspell(fields[4]), id.val)]

\* readManifest: the first line and the empty lines are skipped; the first
\* line that cannot be parsed ends the read with an error.
splitReadManifest(text) ==
  LET all == scanLines(text)
      lines == SelectSeq(IF Len(all) = 0 THEN <<>> ELSE Tail(all), LAMBDA l : Len(l) > 0)
  IN  IF \E i \in 1..Len(lines) : ~splitParseLine(lines[i]).ok
      THEN [err |-> TRUE, slice |-> <<>>]
      ELSE [err |-> FALSE, slice |-> [i \in 1..Len(lines) |-> splitParseLine(lines[i]).fi]]

\* Records of this format: paths with a comma, with a quote, with a leading
\* space and without any of them; times at whole seconds.
SprintfRecords ==
  { FileInfo("a,b", [sec |-> 12, frac |-> 0], 10, "0cc1", 12),
    FileInfo("a\"b", [sec |-> 1, frac |-> 0], 0, "9e10", 1),
    FileInfo(" a", [sec |-> -1, frac |-> 0], 1, "0cc1", 0),
    FileInfo("a.txt", [sec |-> 0, frac |-> 0], 10, "9e10", 1),
    FileInfo("a.txt", [sec |-> 12, frac |-> 0], 1, "0cc1", 12),
    FileInfo("a/b.txt", [sec |-> 1, frac |-> 0], 0, "0cc1", 1),
    FileInfo("a/b.txt", [sec |-> -1, frac |-> 0], 10, "9e10", 0) }

SprintfInputs == UNION { [1..n -> SprintfRecords] : n \in 0..MaxRecords }

InitSprintfCodec ==
  /\ tree = [p \in Paths |-> NoFile]
  /\ disk = [m \in ManifestNames |-> Absent]
  /\ run = NoRun
  /\ fresh = [m \in ManifestNames |-> NotFresh]
  /\ events = 0
  /\ cmp = NoCmp
  /\ rc = NoRc
  /\ vf = NoVf
  /\ ru = NoRu
  /\ \E slice \in SprintfInputs :
       codec = [pc |-> "sprintf_input", slice |-> slice, err |-> FALSE, rows |-> <<>>,
                text |-> <<>>, out |-> [err |-> FALSE, slice |-> <<>>]]

\* writeManifest(file, fileInfoSlice) on an empty file.
SprintfWrite ==
  /\ codec.pc = "sprintf_input"
  /\ codec' = [codec EXCEPT !.pc = "sprintf_written",
                            !.text = sprintfWriteManifest(codec.slice)]
  /\ UNCHANGED <<tree, disk, run, fresh, events, cmp, rc, vf, ru>>

\* readManifest(manifestPath) on the file just written.
SplitRead ==
  /\ codec.pc = "sprintf_written"
  /\ codec' = [codec EXCEPT !.pc = "split_read", !.out = splitReadManifest(codec.text)]
  /\ UNCHANGED <<tree, disk, run, fresh, events, cmp, rc, vf, ru>>

NextSprintfCodec == SprintfWrite \/ SplitRead

SpecSprintfCodec == InitSprintfCodec /\ [][NextSprintfCodec]_vars

-----------------------------------------------------------------------------
(* runVerify: a manifest of the main package against a scan of a directory. *)
(* The walk runs in the main goroutine and hands every file to one of       *)
(* NumCPU workers over an unbuffered channel.                               *)

\* The paths of the scanned directory: "a" is a file, or the directory that
\* holds a/b.txt.
VfPathSeq == <<"a", "a/b.txt", "a.txt">>
VfPaths == {VfPathSeq[i] : i \in 1..Len(VfPathSeq)}

VfFiles ==
  { [sec |-> 1, frac |-> 0, size |-> 10, body |-> 1],
    [sec |-> 1, frac |-> 5, size |-> 10, body |-> 2] }

VfDirs ==
  { d \in [VfPaths -> VfFiles \cup {NoEntry}] : d["a"] # NoEntry => d["a/b.txt"] = NoEntry }

\* root, lstat: os.Lstat fails on the root or on the entry, and the callback
\* gets a nil info; readdir: the directory a cannot be listed; md5:
\* calculateMD5 fails for the file.
VfFaults ==
  {NoFault, [kind |-> "root", path |-> ""], [kind |-> "readdir", path |-> "a"]} \cup
  {[kind |-> k, path |-> p] : k \in {"lstat", "md5"}, p \in VfPaths}

\* readManifest of the main package: the first line is skipped, every other
\* line has the four fields Path, ModifiedTime, Size, Hash.
mainParseLine(fields) ==
  LET t == ParseInt(fields[2])
      n == ParseInt(fields[3])
  IN  [ok |-> t.ok /\ n.ok,
       fi |-> [Path |-> fields[1], ModifiedTime |-> [sec |-> t.val, frac |-> 0],
               Size |-> n.val, Hash |-> fields[4]]]

mainReadManifest(file) ==
  LET lines == SelectSeq(IF Len(file.bytes) = 0 THEN <<>> ELSE Tail(file.bytes),
                         LAMBDA fields : Len(fields) > 0) IN
  IF ~file.exists THEN [err |-> TRUE, slice |-> <<>>]
  ELSE IF \E i \in 1..Len(lines) : Len(lines[i]) # 4 THEN [err |-> TRUE, slice |-> <<>>]
  ELSE IF \E i \in 1..Len(lines) : ~mainParseLine(lines[i]).ok THEN [err |-> TRUE, slice |-> <<>>]
  ELSE [err |-> FALSE, slice |-> [i \in 1..Len(lines) |-> mainParseLine(lines[i]).fi]]

\* The records a create of the main package can have written for the paths.
VfRecords == { CmpFileInfo(p, f, TRUE) : p \in VfPaths, f \in VfFiles }

\* The manifest files given to verify: none, or one written by
\* writeManifest from records with different paths.
VfManifests ==
  {Absent} \cup
  { File(mainWriteManifest(slice)) :
      slice \in { sl \in UNION { [1..n -> VfRecords] : n \in 0..MaxRecords } :
                    \A i, j \in 1..Len(sl) : sl[i].Path = sl[j].Path => i = j } }

\* The calls of the walk function in the order filepath.Walk makes them
\* (lexical order, a directory before its entries): on a directory, on a
\* file, or with a nil info after a failed Lstat.
VfVisit(path, kind) == [path |-> path, kind |-> kind]

VfVisitFile(d, fault, path) ==
  IF d[path] = NoEntry THEN <<>>
  ELSE IF fault = [kind |-> "lstat", path |-> path] THEN <<VfVisit(path, "nil")>>
  ELSE <<VfVisit(path, "file")>>

VfVisits(d, fault) ==
  IF fault.kind = "root" THEN <<VfVisit(".", "nil")>>
  ELSE <<VfVisit(".", "dir")>> \o
       (IF d["a"] # NoEntry THEN VfVisitFile(d, fault, "a")
        ELSE IF d["a/b.txt"] = NoEntry THEN <<>>
        ELSE IF fault = [kind |-> "lstat", path |-> "a"] THEN <<VfVisit("a", "nil")>>
        ELSE <<VfVisit("a", "dir")>> \o
             (IF fault.kind = "readdir" THEN <<>> ELSE VfVisitFile(d, fault, "a/b.txt"))) \o
       VfVisitFile(d, fault, "a.txt")

\* A worker waiting in its range over filepathWalkDataChan.
VfIdle == [path |-> ""]

\* One line of standard output.
VfLine(tag, path) == <<tag, path>>

\* A worker that compares the modification time and the size only, with and
\* without --quick.
vfWorkerBodyNoHash(manifestMap, d, quick, fault, relativePath) ==
  LET f == d[relativePath] IN
  IF relativePath \notin DOMAIN manifestMap
  THEN [panic |-> FALSE, out |-> <<VfLine("[+]", relativePath)>>]
  ELSE
    LET fileInfo == manifestMap[relativePath]
        differs == f.sec # Unix(fileInfo.ModifiedTime) \/ f.size # fileInfo.Size
    IN
    [panic |-> FALSE, out |-> IF differs THEN <<VfLine("[M]", relativePath)>> ELSE <<>>]

\* The body of the worker's loop for one file: the lines it prints, or the
\* panic when calculateMD5 fails.
vfWorkerBody(manifestMap, d, quick, fault, relativePath) ==
  LET f == d[relativePath] IN
  IF relativePath \notin DOMAIN manifestMap
  THEN [panic |-> FALSE, out |-> <<VfLine("[+]", relativePath)>>]
  ELSE
    LET fileInfo == manifestMap[relativePath]
        differs == f.sec # Unix(fileInfo.ModifiedTime) \/ f.size # fileInfo.Size
    IN
    IF quick
    THEN [panic |-> FALSE, out |-> IF differs THEN <<VfLine("[M]", relativePath)>> ELSE <<>>]
    ELSE IF fault = [kind |-> "md5", path |-> relativePath]
    THEN [panic |-> TRUE, out |-> <<>>]
    ELSE [panic |-> FALSE,
          out |-> IF differs \/ calculateMD5(f) # fileInfo.Hash
                  THEN <<VfLine("[M]", relativePath)>> ELSE <<>>]

\* A report loop that prints every manifest entry.
vfRemovedAll(manifestSlice, accessedPathSlice) ==
  [i \in 1..Len(manifestSlice) |-> VfLine("[-]", manifestSlice[i].Path)]

\* The last loop: one line for every manifest entry whose path is not in
\* accessedPathSet, in the order of the manifest.
RECURSIVE vfRemoved(_, _)
vfRemoved(manifestSlice, accessedPathSlice) ==
  IF Len(manifestSlice) = 0 THEN <<>>
  ELSE (IF \E i \in 1..Len(accessedPathSlice) : accessedPathSlice[i] = Head(manifestSlice).Path
        THEN <<>> ELSE <<VfLine("[-]", Head(manifestSlice).Path)>>) \o
       vfRemoved(Tail(manifestSlice), accessedPathSlice)

InitVerify ==
  /\ tree = [p \in Paths |-> NoFile]
  /\ disk = [m \in ManifestNames |-> Absent]
  /\ run = NoRun
  /\ fresh = [m \in ManifestNames |-> NotFresh]
  /\ events = 0
  /\ cmp = NoCmp
  /\ rc = NoRc
  /\ codec = NoCodec
  /\ ru = NoRu
  /\ \E d \in VfDirs, file \in VfManifests, quick \in BOOLEAN, fault \in VfFaults :
       vf = [pc |-> "start", dir |-> d, file |-> file, quick |-> quick, fault |-> fault,
             manifestSlice |-> <<>>, manifestMap |-> <<>>, visits |-> <<>>, next |-> 1,
             worker |-> [w \in Workers |-> VfIdle],
             accessedPathSlice |-> <<>>, out |-> <<>>]

\* readManifest, manifestMap, the workers are started and the walk begins.
VfStart ==
  LET r == mainReadManifest(vf.file) IN
  /\ vf.pc = "start"
  /\ vf' = IF r.err
           THEN [vf EXCEPT !.pc = "read_error"]
           ELSE [vf EXCEPT !.pc = "walk",
                           !.manifestSlice = r.slice,
                           !.manifestMap = fileInfoSliceToMap(r.slice),
                           !.visits = VfVisits(vf.dir, vf.fault)]
  /\ UNCHANGED <<tree, disk, run, fresh, events, cmp, rc, codec, ru>>

VfWalking == vf.pc = "walk" /\ vf.next <= Len(vf.visits)

\* The walk function on a directory: nothing is sent.
VfWalkDir ==
  /\ VfWalking
  /\ vf.visits[vf.next].kind = "dir"
  /\ vf' = [vf EXCEPT !.next = @ + 1]
  /\ UNCHANGED <<tree, disk, run, fresh, events, cmp, rc, codec, ru>>

\* The walk function with a nil info: info.IsDir() panics.
VfWalkNil ==
  /\ VfWalking
  /\ vf.visits[vf.next].kind = "nil"
  /\ vf' = [vf EXCEPT !.pc = "panic"]
  /\ UNCHANGED <<tree, disk, run, fresh, events, cmp, rc, codec, ru>>

\* The walk function on a file: the send completes when a waiting worker
\* receives, then the path is appended to accessedPathSlice.
VfWalkSend(w) ==
  /\ VfWalking
  /\ vf.visits[vf.next].kind = "file"
  /\ vf.worker[w] = VfIdle
  /\ vf' = [vf EXCEPT !.worker[w] = [path |-> vf.visits[vf.next].path],
                      !.accessedPathSlice = Append(@, vf.visits[vf.next].path),
                      !.next = @ + 1]
  /\ UNCHANGED <<tree, disk, run, fresh, events, cmp, rc, codec, ru>>

\* A worker processes the file it received.
VfWorkerProcess(w) ==
  LET b == vfWorkerBody(vf.manifestMap, vf.dir, vf.quick, vf.fault, vf.worker[w].path) IN
  /\ vf.pc = "walk"
  /\ vf.worker[w] # VfIdle
  /\ vf' = IF b.panic THEN [vf EXCEPT !.pc = "panic"]
           ELSE [vf EXCEPT !.worker[w] = VfIdle, !.out = @ \o b.out]
  /\ UNCHANGED <<tree, disk, run, fresh, events, cmp, rc, codec, ru>>

\* close(filepathWalkDataChan), wg.Wait(), and the report of the manifest
\* entries that were not accessed.  The walk function returns an error only
\* when filepath.Rel fails, which it cannot for a path under the root, so
\* the walk has returned nil here.
VfReport ==
  /\ vf.pc = "walk"
  /\ vf.next > Len(vf.visits)
  /\ \A w \in Workers : vf.worker[w] = VfIdle
  /\ vf' = [vf EXCEPT !.pc = "done",
                      !.out = @ \o vfRemoved(vf.manifestSlice, vf.accessedPathSlice)]
  /\ UNCHANGED <<tree, disk, run, fresh, events, cmp, rc, codec, ru>>

NextVerify ==
  \/ VfStart
  \/ VfWalkDir
  \/ VfWalkNil
  \/ \E w \in Workers : VfWalkSend(w)
  \/ \E w \in Workers : VfWorkerProcess(w)
  \/ VfReport

SpecVerify == InitVerify /\ [][NextVerify]_vars

\* verify on directories whose files are as first recorded, with manifests
\* that recorded the paths with any of the modification times, sizes and
\* contents: the same, or different in the sub-second part of the time, in
\* the second, in the size, in the bytes or in all of them.
VfRecordedFile == [sec |-> 1, frac |-> 0, size |-> 10, body |-> 1]

VfChangedDirs == { d \in VfDirs : \A p \in VfPaths : d[p] \in {VfRecordedFile, NoEntry} }

VfEarlierDirs ==
  { d \in [VfPaths -> CmpFiles \cup {NoEntry}] : d["a"] # NoEntry => d["a/b.txt"] = NoEntry }

\* The manifest runCreate wrote for a directory: a record for every file, in
\* ascending path order.
VfManifestOf(d) ==
  LET files == SelectSeq(VfPathSeq, LAMBDA p : d[p] # NoEntry) IN
  File(mainWriteManifest([i \in 1..Len(files) |-> CmpFileInfo(files[i], d[files[i]], TRUE)]))

VfChangedFaults ==
  {NoFault, [kind |-> "root", path |-> ""]} \cup {[kind |-> "md5", path |-> p] : p \in VfPaths}

InitVerifyChanged ==
  /\ tree = [p \in Paths |-> NoFile]
  /\ disk = [m \in ManifestNames |-> Absent]
  /\ run = NoRun
  /\ fresh = [m \in ManifestNames |-> NotFresh]
  /\ events = 0
  /\ cmp = NoCmp
  /\ rc = NoRc
  /\ codec = NoCodec
  /\ ru = NoRu
  /\ \E d \in VfChangedDirs, earlier \in VfEarlierDirs, quick \in BOOLEAN,
        fault \in VfChangedFaults :
       vf = [pc |-> "start", dir |-> d, file |-> VfManifestOf(earlier), quick |-> quick,
             fault |-> fault,
             manifestSlice |-> <<>>, manifestMap |-> <<>>, visits |-> <<>>, next |-> 1,
             worker |-> [w \in Workers |-> VfIdle],
             accessedPathSlice |-> <<>>, out |-> <<>>]

SpecVerifyChanged == InitVerifyChanged /\ [][NextVerify]_vars

-----------------------------------------------------------------------------
(* runUpdate: the update command of the main package.  The walk runs in the *)
(* main goroutine, NumCPU workers make the records, a collector goroutine   *)
(* appends them to newManifestSlice; both channels are unbuffered.          *)

RuFiles ==
  { [sec |-> 1, frac |-> 0, size |-> 10, body |-> 1],
    [sec |-> 2, frac |-> 5, size |-> 20, body |-> 2] }

RuDirs == [Paths -> RuFiles \cup {NoEntry}]

\* The records of the files of a directory, in ascending path order.
RuRecords(d) ==
  LET files == SelectSeq(PathSeq, LAMBDA p : d[p] # NoEntry) IN
  [i \in 1..Len(files) |-> CmpFileInfo(files[i], d[files[i]], TRUE)]

\* The old manifest: no file, or the manifest of an earlier state of the
\* directory.
RuOldManifests == {Absent} \cup { File(mainWriteManifest(RuRecords(d))) : d \in RuDirs }

\* root: os.Lstat fails on the root and the walk function gets a nil info;
\* md5: calculateMD5 fails for the file.
RuFaults ==
  {NoFault, [kind |-> "root", path |-> ""]} \cup {[kind |-> "md5", path |-> p] : p \in Paths}

\* The calls of the walk function in filepath.Walk's order.
RuVisitFile(d, path) == IF d[path] = NoEntry THEN <<>> ELSE <<VfVisit(path, "file")>>

RuVisits(d, fault) ==
  IF fault.kind = "root" THEN <<VfVisit(".", "nil")>>
  ELSE <<VfVisit(".", "dir")>> \o
       (IF d["a/b.txt"] = NoEntry THEN <<>>
        ELSE <<VfVisit("a", "dir")>> \o RuVisitFile(d, "a/b.txt")) \o
       RuVisitFile(d, "a.txt")

\* The body of the worker's loop for one file: whether calculateMD5 is
\* called, and the record sent to the collector.
ruNeedsHash(oldManifestMap, d, quick, relativePath) ==
  \/ relativePath \notin DOMAIN oldManifestMap
  \/ ~quick
  \/ d[relativePath].sec # Unix(oldManifestMap[relativePath].ModifiedTime)
  \/ d[relativePath].size # oldManifestMap[relativePath].Size

ruFileInfo(oldManifestMap, d, quick, relativePath) ==
  LET f == d[relativePath] IN
  [Path |-> relativePath,
   ModifiedTime |-> [sec |-> f.sec, frac |-> f.frac],
   Size |-> f.size,
   Hash |-> IF ruNeedsHash(oldManifestMap, d, quick, relativePath)
            THEN calculateMD5(f) ELSE oldManifestMap[relativePath].Hash]

InitRunUpdate ==
  /\ tree = [p \in Paths |-> NoFile]
  /\ disk = [m \in ManifestNames |-> Absent]
  /\ run = NoRun
  /\ fresh = [m \in ManifestNames |-> NotFresh]
  /\ events = 0
  /\ cmp = NoCmp
  /\ rc = NoRc
  /\ codec = NoCodec
  /\ vf = NoVf
  /\ \E d \in RuDirs, old \in RuOldManifests, dest \in {Absent, RcOldFile},
        quick \in BOOLEAN, fault \in RuFaults :
       ru = [pc |-> "start", dir |-> d, quick |-> quick, fault |-> fault,
             disk |-> [m \in {"old.csv", "new.csv"} |-> IF m = "old.csv" THEN old ELSE dest],
             existed |-> dest.exists, answer |-> "",
             oldManifestMap |-> <<>>, visits |-> <<>>, next |-> 1,
             closedWalkData |-> FALSE, closedFileInfo |-> FALSE,
             worker |-> [w \in Workers |-> [pc |-> "off"]],
             collector |-> [pc |-> "off"],
             newManifestSlice |-> <<>>]

\* Lines 29-75, 137-142: os.Stat and the prompt, createFile, readManifest,
\* oldManifestMap; the workers and the collector are started.
RuStart(answer) ==
  LET cf == createFile(ru.disk, "new.csv", TRUE)
      rd == mainReadManifest(cf.disk["old.csv"])
  IN
  /\ ru.pc = "start"
  /\ answer \in (IF ru.existed THEN {"y", "n"} ELSE {""})
  /\ ru' = IF ru.existed /\ answer # "y"
           THEN [ru EXCEPT !.pc = "cancelled", !.answer = answer]
           ELSE IF cf.err
           THEN [ru EXCEPT !.pc = "create_error", !.answer = answer]
           ELSE IF rd.err
           THEN [ru EXCEPT !.pc = "read_error", !.answer = answer, !.disk = cf.disk]
           ELSE [ru EXCEPT !.pc = "walk", !.answer = answer, !.disk = cf.disk,
                           !.oldManifestMap = fileInfoSliceToMap(rd.slice),
                           !.visits = RuVisits(ru.dir, ru.fault),
                           !.worker = [w \in Workers |-> [pc |-> "range"]],
                           !.collector = [pc |-> "range"]]
  /\ UNCHANGED <<tree, disk, run, fresh, events, cmp, rc, codec, vf>>

RuWalking == ru.pc = "walk" /\ ru.next <= Len(ru.visits)

\* The walk function on a directory: nothing is sent.
RuWalkDir ==
  /\ RuWalking
  /\ ru.visits[ru.next].kind = "dir"
  /\ ru' = [ru EXCEPT !.next = @ + 1]
  /\ UNCHANGED <<tree, disk, run, fresh, events, cmp, rc, codec, vf>>

\* The walk function with a nil info: info.IsDir() panics.
RuWalkNil ==
  /\ RuWalking
  /\ ru.visits[ru.next].kind = "nil"
  /\ ru' = [ru EXCEPT !.pc = "panic"]
  /\ UNCHANGED <<tree, disk, run, fresh, events, cmp, rc, codec, vf>>

\* The walk function on a file: the send on filepathWalkDataChan completes
\* when a worker waiting in its range receives.
RuWalkSend(w) ==
  /\ RuWalking
  /\ ru.visits[ru.next].kind = "file"
  /\ ru.worker[w].pc = "range"
  /\ ru' = [ru EXCEPT !.worker[w] = [pc |-> "process", path |-> ru.visits[ru.next].path],
                      !.next = @ + 1]
  /\ UNCHANGED <<tree, disk, run, fresh, events, cmp, rc, codec, vf>>

\* Walk has returned: close(filepathWalkDataChan), then wg.Wait().
RuWalkEnd ==
  /\ ru.pc = "walk"
  /\ ru.next > Len(ru.visits)
  /\ ru' = [ru EXCEPT !.pc = "wait", !.closedWalkData = TRUE]
  /\ UNCHANGED <<tree, disk, run, fresh, events, cmp, rc, codec, vf>>

RuRunning == ru.pc \in {"walk", "wait", "sort", "write"}

\* A worker makes the record of the file it received; a failing
\* calculateMD5 panics.
RuWorkerProcess(w) ==
  LET path == ru.worker[w].path IN
  /\ RuRunning
  /\ ru.worker[w].pc = "process"
  /\ ru' = IF /\ ru.fault = [kind |-> "md5", path |-> path]
              /\ ruNeedsHash(ru.oldManifestMap, ru.dir, ru.quick, path)
           THEN [ru EXCEPT !.pc = "panic"]
           ELSE [ru EXCEPT !.worker[w] =
                   [pc |-> "send",
                    fileInfo |-> ruFileInfo(ru.oldManifestMap, ru.dir, ru.quick, path)]]
  /\ UNCHANGED <<tree, disk, run, fresh, events, cmp, rc, codec, vf>>

\* fileInfoChan <- fileInfo completes when the collector, waiting in its
\* range, receives; the collector has not appended yet.
RuWorkerSend(w) ==
  /\ RuRunning
  /\ ru.worker[w].pc = "send"
  /\ ru.collector.pc = "range"
  /\ ru' = [ru EXCEPT !.worker[w] = [pc |-> "range"],
                      !.collector = [pc |-> "append", fileInfo |-> ru.worker[w].fileInfo]]
  /\ UNCHANGED <<tree, disk, run, fresh, events, cmp, rc, codec, vf>>

\* The range loop of a worker ends on the closed channel: wg.Done().
RuWorkerExit(w) ==
  /\ RuRunning
  /\ ru.worker[w].pc = "range"
  /\ ru.closedWalkData
  /\ ru' = [ru EXCEPT !.worker[w] = [pc |-> "done"]]
  /\ UNCHANGED <<tree, disk, run, fresh, events, cmp, rc, codec, vf>>

\* newManifestSlice = append(newManifestSlice, fileInfo) in the collector.
RuCollectorAppend ==
  /\ RuRunning
  /\ ru.collector.pc = "append"
  /\ ru' = [ru EXCEPT !.newManifestSlice = Append(@, ru.collector.fileInfo),
                      !.collector = [pc |-> "range"]]
  /\ UNCHANGED <<tree, disk, run, fresh, events, cmp, rc, codec, vf>>

\* The range loop of the collector ends on the closed channel.
RuCollectorExit ==
  /\ RuRunning
  /\ ru.collector.pc = "range"
  /\ ru.closedFileInfo
  /\ ru' = [ru EXCEPT !.collector = [pc |-> "done"]]
  /\ UNCHANGED <<tree, disk, run, fresh, events, cmp, rc, codec, vf>>

\* wg.Wait() returns: close(fileInfoChan); the walk returned nil.  Nothing
\* waits for the collector.
RuCloseFileInfo ==
  /\ ru.pc = "wait"
  /\ \A w \in Workers : ru.worker[w].pc = "done"
  /\ ru' = [ru EXCEPT !.pc = "sort", !.closedFileInfo = TRUE]
  /\ UNCHANGED <<tree, disk, run, fresh, events, cmp, rc, codec, vf>>

\* sort.Slice(newManifestSlice, ...) by Path, on the slice as it is.
RuSort ==
  /\ ru.pc = "sort"
  /\ ru' = [ru EXCEPT !.pc = "write", !.newManifestSlice = SortOutputs(@)]
  /\ UNCHANGED <<tree, disk, run, fresh, events, cmp, rc, codec, vf>>

\* writeManifest(file, newManifestSlice) on the slice as it is; runUpdate
\* returns and the process ends.
RuWrite ==
  /\ ru.pc = "write"
  /\ ru' = [ru EXCEPT !.pc = "done",
                      !.disk["new.csv"] = File(mainWriteManifest(ru.newManifestSlice))]
  /\ UNCHANGED <<tree, disk, run, fresh, events, cmp, rc, codec, vf>>

NextRunUpdate ==
  \/ \E answer \in {"", "y", "n"} : RuStart(answer)
  \/ RuWalkDir
  \/ RuWalkNil
  \/ \E w \in Workers : RuWalkSend(w)
  \/ RuWalkEnd
  \/ \E w \in Workers : RuWorkerProcess(w)
  \/ \E w \in Workers : RuWorkerSend(w)
  \/ \E w \in Workers : RuWorkerExit(w)
  \/ RuCollectorAppend
  \/ RuCollectorExit
  \/ RuCloseFileInfo
  \/ RuSort
  \/ RuWrite

SpecRunUpdate == InitRunUpdate /\ [][NextRunUpdate]_vars

-----------------------------------------------------------------------------
(* Claims about update.  They are stated on the state an update leaves: its *)
(* arguments and outcome in run, the tree it scanned in tree (a change of   *)
(* the tree clears run), the old and the new manifest on disk.              *)

UpdateOk == run.cmd = "update" /\ run.outcome = "ok"

\* The regular files the walk handed to the callback and that were not skipped.
Scanned(p) ==
  /\ tree[p] # NoFile
  /\ run.fault.kind # "root"
  /\ ~(run.fault.kind = "stat" /\ run.fault.path = p)

OldRecords == readManifest(disk[run.old]).slice
NewRecords == readManifest(disk[run.new]).slice

SameSizeAndTime(r, f) == r.Size = f.size /\ r.ModifiedTime.sec = f.sec

\* The old records that match the file at p by path, size and whole-second time.
PathMatches(p) ==
  {i \in 1..Len(OldRecords) : OldRecords[i].Path = p /\ SameSizeAndTime(OldRecords[i], tree[p])}

\* The old record the by-stable-id index holds for the file at p: the one
\* listed last with the file's stable id (the only one when ids are unique).
IdIndex(p) ==
  {i \in 1..Len(OldRecords) :
     /\ OldRecords[i].NTFSFileID = tree[p].id
     /\ \A j \in 1..Len(OldRecords) : OldRecords[j].NTFSFileID = tree[p].id => j <= i}

IdMatches(p) == {i \in IdIndex(p) : SameSizeAndTime(OldRecords[i], tree[p])}

NewAt(p) == {j \in 1..Len(NewRecords) : NewRecords[j].Path = p}

\* The new manifest has exactly one record for p, and it is r.
NewRecordIs(p, r) ==
  /\ Cardinality(NewAt(p)) = 1
  /\ \A j \in NewAt(p) : NewRecords[j] = r

\* C1: a scanned file whose path is in the old manifest with the same size and
\* whole-second mtime gets the old record, equal in every field, in the new
\* manifest, and its content is not hashed.
C1_UnchangedReusedVerbatim ==
  /\ UpdateOk =>
       \A p \in Paths : Scanned(p) =>
         \A i \in PathMatches(p) : NewRecordIs(p, OldRecords[i]) /\ p \notin run.hashed
  /\ (run.cmd = "update" /\ run.outcome = "panic") =>
       \A p \in Paths : (Scanned(p) /\ PathMatches(p) # {}) => p \notin run.hashed

\* A file with a sub-second mtime matched by path, its record reused although
\* the file object at the path is another one, while another file was hashed.
C1_Witness ==
  /\ UpdateOk
  /\ \E p \in Paths :
       /\ Scanned(p) /\ PathMatches(p) # {} /\ tree[p].frac # 0
       /\ \E i \in PathMatches(p) : OldRecords[i].NTFSFileID # tree[p].id
  /\ run.hashed # {}

\* The old records that carry the stable id of the file at p with the file's
\* size and whole-second time.
AnyIdMatches(p) ==
  {i \in 1..Len(OldRecords) :
     OldRecords[i].NTFSFileID = tree[p].id /\ SameSizeAndTime(OldRecords[i], tree[p])}

\* What the code does for a file that matches by stable id: the match is
\* looked up in the by-stable-id index, which holds the last record listed
\* with that id; when that record has the file's size and time, it is reused
\* under the file's current path and nothing is hashed.
MovedReusedByIndex ==
  /\ UpdateOk =>
       \A p \in Paths : (Scanned(p) /\ PathMatches(p) = {}) =>
         \A i \in IdMatches(p) :
           /\ NewRecordIs(p, [OldRecords[i] EXCEPT !.Path = p])
           /\ p \notin run.hashed
  /\ (run.cmd = "update" /\ run.outcome = "panic") =>
       \A p \in Paths : (Scanned(p) /\ PathMatches(p) = {} /\ IdMatches(p) # {}) =>
         p \notin run.hashed

\* What the code does about hashing: a file is hashed iff the record the
\* by-path index holds and the record the by-stable-id index holds both fail
\* to match it.
HashIffNoIndexedMatch ==
  /\ UpdateOk =>
       \A p \in Paths :
         /\ p \in run.hashed <=> (Scanned(p) /\ PathMatches(p) = {} /\ IdMatches(p) = {})
         /\ p \in run.hashed =>
              NewRecordIs(p, FileInfo(p, [sec |-> tree[p].sec, frac |-> 0], tree[p].size,
                                      calculateMD5(tree[p]), tree[p].id))
  /\ (run.cmd = "update" /\ run.outcome = "panic") =>
       \A p \in run.hashed : Scanned(p) /\ PathMatches(p) = {} /\ IdMatches(p) = {}

\* C2: a scanned file that does not match by path but whose stable id is in
\* the old manifest with the same size and whole-second mtime gets that old
\* record's hash, mtime, size and stable id under its current path, and no
\* hash is computed for it.
C2_MovedReusedUnderNewPath ==
  UpdateOk =>
    \A p \in Paths : (Scanned(p) /\ PathMatches(p) = {} /\ AnyIdMatches(p) # {}) =>
      /\ p \notin run.hashed
      /\ \E i \in AnyIdMatches(p) : NewRecordIs(p, [OldRecords[i] EXCEPT !.Path = p])

\* C3: a hash is computed for a scanned file iff it matches the old manifest
\* neither by (path, size, mtime) nor by (stable id, size, mtime), and then the
\* new record carries the file's path, size, mtime, stable id and fresh hash.
C3_HashIffNoMatch ==
  UpdateOk =>
    \A p \in Paths :
      /\ p \in run.hashed <=> (Scanned(p) /\ PathMatches(p) = {} /\ AnyIdMatches(p) = {})
      /\ p \in run.hashed =>
           NewRecordIs(p, FileInfo(p, [sec |-> tree[p].sec, frac |-> 0], tree[p].size,
                                   calculateMD5(tree[p]), tree[p].id))

\* C4: when a scanned file matches one old record by path and a different one
\* by stable id, the new record is the path-matched one.
C4_PathMatchFirst ==
  UpdateOk =>
    \A p \in Paths : Scanned(p) =>
      \A i \in PathMatches(p), k \in IdMatches(p) :
        i # k =>
          /\ NewRecordIs(p, OldRecords[i])
          /\ [OldRecords[k] EXCEPT !.Path = p] # OldRecords[i] =>
                ~NewRecordIs(p, [OldRecords[k] EXCEPT !.Path = p])

\* Both matches exist and disagree on the hash and on the stable id.
C4_Witness ==
  /\ UpdateOk
  /\ \E p \in Paths :
       /\ Scanned(p)
       /\ \E i \in PathMatches(p), k \in IdMatches(p) :
            /\ OldRecords[i].Hash # OldRecords[k].Hash
            /\ OldRecords[i].NTFSFileID # OldRecords[k].NTFSFileID

\* The old manifest of the update just run was itself written by an update of
\* this tree, in the same environment, and the tree has not changed since.
SecondRun ==
  /\ UpdateOk
  /\ fresh[run.old].by = "update"
  /\ fresh[run.old].fault = run.fault

\* C5: update run twice with no change in between writes the same manifest
\* again, record for record and in the same order, and hashes nothing.
C5_UpdateIdempotent ==
  SecondRun => disk[run.new].bytes = disk[run.old].bytes /\ run.hashed = {}

\* A second run over two files, one with a sub-second mtime, whose first run
\* had something to hash.
C5_Witness ==
  /\ SecondRun
  /\ Len(NewRecords) = 2
  /\ \E p \in Paths : tree[p] # NoFile /\ tree[p].frac # 0
  /\ \E m \in ManifestNames : Whole(m) /\ disk[m].bytes # disk[run.old].bytes

\* C9: an update that ends with an error after its capability check has
\* created no file at the new-manifest path.
C9_NothingWrittenOnError ==
  (run.cmd = "update" /\ run.outcome = "read_error") => ~disk[run.new].exists

\* C10: with an inaccessible scan root, create and update do not report
\* success and write no manifest.
C10_RootErrorAborts ==
  (run.cmd \in {"create", "update"} /\ run.fault.kind = "root") =>
    ~run.success /\ ~Whole(run.new)

-----------------------------------------------------------------------------
(* Claims about errors and frame conditions of create and update. *)

\* The scan met a per-file failure that is no content-hash failure: d.Info()
\* failed for a file, or (update, which asks for the stable id first) the
\* file could not be opened for its stable id.
OtherFileFailure ==
  /\ run.cmd \in {"create", "update"}
  /\ run.outcome \in {"ok", "panic", "write_error"}
  /\ run.fault.path \in Paths
  /\ tree[run.fault.path] # NoFile
  /\ \/ run.fault.kind = "stat"
     \/ run.cmd = "update" /\ run.fault.kind = "open"

\* C11: a per-file failure other than a content-hash failure (stat, relative
\* path, stable id) skips that file only: the command completes, writes the
\* manifest, and every other regular file has its record.
C11_OtherFailuresSkipOnlyTheFile ==
  OtherFileFailure =>
    /\ run.outcome = "ok"
    /\ NewAt(run.fault.path) = {}
    /\ \A p \in Paths \ {run.fault.path} : tree[p] # NoFile => Cardinality(NewAt(p)) = 1

\* C12: when isNTFS answers false or fails, create and update stop there,
\* whatever the command line, the disk and the tree: no file is created or
\* changed, and the result carries nothing of the old manifest or the tree
\* (nothing was read, walked, hashed or looked up).
C12_CapabilityErrorFirst ==
  \A old, new \in ManifestNames, env \in {e \in Envs : e.ntfs # "ntfs"} :
      LET outcome == IF env.ntfs = "error" THEN "fs_error" ELSE "not_ntfs" IN
      /\ create(tree, disk, new, env) = [disk |-> disk, run |-> Stopped("create", outcome)]
      /\ update(tree, disk, old, new, env) = [disk |-> disk, run |-> Stopped("update", outcome)]

\* A command stopped by the capability check although there were a manifest
\* to read, files to walk and a free destination name.
C12_Witness ==
  /\ run.outcome \in {"fs_error", "not_ntfs"}
  /\ \E m \in ManifestNames : Whole(m)
  /\ \E m \in ManifestNames : ~disk[m].exists
  /\ \E p \in Paths : tree[p] # NoFile

\* C13: update never changes the file at the old-manifest path: whatever
\* way the run ends, a file that was there before the run has the same content
\* after it, also when the same path is named as old and as new manifest (a
\* run stopped at or before createFile changes no file at all).
C13_OldManifestUntouched ==
  [][run'.cmd = "update" =>
       IF run'.outcome \in {"fs_error", "not_ntfs", "create_error"}
       THEN disk' = disk
       ELSE disk[run'.old].exists => disk'[run'.old] = disk[run'.old]]_vars

\* An update that wrote a new manifest differing from the old one, which is
\* still whole.
C13_Witness ==
  /\ UpdateOk
  /\ Whole(run.old)
  /\ run.old # run.new
  /\ disk[run.new].bytes # disk[run.old].bytes

\* C14: when a file exists at the destination path, create and update fail at
\* createFile with the destination-exists error (unless the capability check
\* has already stopped them) and leave every file as it was.
C14_ExistingDestinationRefused ==
  \A new \in {m \in ManifestNames : disk[m].exists}, env \in Envs :
    /\ createFile(disk, new, env.createOK) = [err |-> TRUE, disk |-> disk]
    /\ LET c == create(tree, disk, new, env) IN
       /\ c.disk = disk
       /\ env.ntfs = "ntfs" => c.run = Stopped("create", "create_error")
    /\ \A old \in ManifestNames :
         LET u == update(tree, disk, old, new, env) IN
         /\ u.disk = disk
         /\ env.ntfs = "ntfs" => u.run = Stopped("update", "create_error")

\* A command refused at createFile when every name had a file behind it, among
\* them a written manifest.
C14_Witness ==
  /\ run.outcome = "create_error"
  /\ \A m \in ManifestNames : disk[m].exists
  /\ \E m \in ManifestNames : Whole(m)

-----------------------------------------------------------------------------
(* Claims about compare.  They are stated on the state runCompare ends in,   *)
(* with its arguments in cmp.dir1, cmp.dir2, cmp.strict and its standard     *)
(* output in cmp.printed.                                                    *)

CompareDone == cmp.pc = "done"

InA(p) == cmp.dir1[p] # NoEntry
InB(p) == cmp.dir2[p] # NoEntry

\* The printed lines of one category about one path.
Lines(p, tag) ==
  {i \in 1..Len(cmp.printed) : cmp.printed[i].Msg[1] = tag /\ cmp.printed[i].Msg[2] = p}

LinesAbout(p) == Lines(p, "[<--]") \cup Lines(p, "[=/=]") \cup Lines(p, "[-->]")

\* C6: a path on both sides with equal size and equal whole-second mtime but
\* different content hashes is reported as Modified in strict mode and not
\* reported at all in quick mode.
C6_StrictSeesHashOnlyDifference ==
  CompareDone =>
    \A p \in Paths :
      ( /\ InA(p) /\ InB(p)
        /\ cmp.dir1[p].size = cmp.dir2[p].size
        /\ cmp.dir1[p].sec = cmp.dir2[p].sec
        /\ calculateMD5(cmp.dir1[p]) # calculateMD5(cmp.dir2[p]) ) =>
      IF cmp.strict THEN Lines(p, "[=/=]") # {} ELSE LinesAbout(p) = {}

\* C7: in both modes, a path on both sides whose whole-second mtime differs or
\* whose size differs is reported as Modified, also when only the mtime
\* differs.
C7_ModifiedOnTimeOrSize ==
  CompareDone =>
    \A p \in Paths :
      ( /\ InA(p) /\ InB(p)
        /\ \/ cmp.dir1[p].sec # cmp.dir2[p].sec
           \/ cmp.dir1[p].size # cmp.dir2[p].size ) =>
      Lines(p, "[=/=]") # {}

\* C8: every path in A and not in B is printed exactly once as Removed, every
\* path in B and not in A exactly once as Added, Removed and Added lines are
\* about no other paths, and no path is printed twice, in one category or two.
C8_DiffComplete ==
  CompareDone =>
    \A p \in Paths :
      /\ (InA(p) /\ ~InB(p)) => Cardinality(Lines(p, "[<--]")) = 1
      /\ (InB(p) /\ ~InA(p)) => Cardinality(Lines(p, "[-->]")) = 1
      /\ Lines(p, "[<--]") # {} => (InA(p) /\ ~InB(p))
      /\ Lines(p, "[-->]") # {} => (InB(p) /\ ~InA(p))
      /\ Cardinality(LinesAbout(p)) <= 1

\* One path only in A and one only in B, printed in path order.
C8_Witness ==
  /\ CompareDone
  /\ \E p, q \in Paths :
       /\ InA(p) /\ ~InB(p) /\ Lines(p, "[<--]") # {}
       /\ InB(q) /\ ~InA(q) /\ Lines(q, "[-->]") # {}
  /\ Len(cmp.printed) = 2

-----------------------------------------------------------------------------
(* Claims about runCreate. *)

RcEnded == rc.pc \in {"cancelled", "create_error", "panic", "walk_error", "done"}

\* C15: when the destination exists, runCreate goes on and writes the new
\* manifest there if the user confirms the prompt, and is cancelled with the
\* file unchanged if the user declines.
C15_ConfirmedOverwriteProceeds ==
  (RcEnded /\ rc.existed) =>
    IF rc.answer = "y"
    THEN /\ rc.pc \in {"done", "panic"}
         /\ rc.pc = "done" =>
              rc.disk[RcManifestPath] = File(mainWriteManifest(rc.fileInfoSlice))
    ELSE /\ rc.pc = "cancelled"
         /\ rc.disk[RcManifestPath] = RcOldFile

\* The regular files of the scanned directory in ascending path order.
RcFiles == SelectSeq(PathSeq, LAMBDA p : rc.dir[p] # NoEntry)

\* C18: whatever the order in which the walker meets the files and the
\* workers deliver them, a completed scan ends with the same sequence: one
\* record for each regular file, none lost, none twice, none for a
\* directory, in ascending path order.
C18_PipelineDeterministic ==
  rc.pc = "done" =>
    rc.fileInfoSlice = [i \in 1..Len(RcFiles) |-> CmpFileInfo(RcFiles[i], rc.dir[RcFiles[i]], TRUE)]

\* Two files whose records reached the collector in descending path order.
C18_Witness ==
  /\ rc.pc = "done"
  /\ Len(rc.fileInfoSlice) = 2
  /\ rc.received # rc.fileInfoSlice

-----------------------------------------------------------------------------
(* Claims about the manifest codec.  They are stated on the list given to   *)
(* writeManifest (codec.slice), the rows and the text it wrote (codec.rows, *)
(* codec.text) and what readManifest made of the text (codec.out).           *)

Range(seq) == { seq[i] : i \in 1..Len(seq) }

WholeSeconds(slice) == \A i \in 1..Len(slice) : slice[i].ModifiedTime.frac = 0

\* The lists with the records of a list in another order.
Reorderings(slice) ==
  { [i \in 1..Len(slice) |-> slice[f[i]]] :
      f \in { g \in [1..Len(slice) -> 1..Len(slice)] :
                \A i, j \in 1..Len(slice) : g[i] = g[j] => i = j } }

RoundTrip(slice) == readManifestText(writeManifestText(slice).text)

\* C16: For a list of records with unique paths and times at whole seconds,
\* readManifest of what writeManifest wrote succeeds and returns as many
\* records as the list has, the same set of records field for field, and
\* returns the same list for every permutation of the input list.
C16_RoundTrip ==
  (codec.pc = "read" /\ ~HasDuplicatePath(codec.slice) /\ WholeSeconds(codec.slice)) =>
    /\ ~codec.out.err
    /\ Len(codec.out.slice) = Len(codec.slice)
    /\ Range(codec.out.slice) = Range(codec.slice)
    /\ \A other \in Reorderings(codec.slice) : RoundTrip(other) = codec.out

\* Two records given in descending path order, one with a comma in its path
\* and a time before 1970, one with a leading space, were written and read.
C16_Witness ==
  /\ codec.pc = "read"
  /\ WholeSeconds(codec.slice)
  /\ Len(codec.slice) = 2
  /\ codec.slice[1].Path = "a,b" /\ codec.slice[1].ModifiedTime.sec < 0
  /\ codec.slice[2].Path = " a"
  /\ ~codec.out.err

\* Byte values of the characters of the paths.
ByteOf(c) ==
  CASE c = " " -> 32 [] c = "," -> 44 [] c = "." -> 46 [] c = "/" -> 47
    [] c = "a" -> 97 [] c = "b" -> 98 [] c = "t" -> 116 [] c = "x" -> 120

\* Go's < on strings: the first differing byte decides, a proper prefix is
\* smaller.
RECURSIVE BytesLess(_, _)
BytesLess(x, y) ==
  IF Len(y) = 0 THEN FALSE
  ELSE IF Len(x) = 0 THEN TRUE
  ELSE IF ByteOf(Head(x)) # ByteOf(Head(y)) THEN ByteOf(Head(x)) < ByteOf(Head(y))
  ELSE BytesLess(Tail(x), Tail(y))

\* C17: When writeManifest succeeds, the rows after the header are the input
\* records' rows, one per record, in strictly ascending byte order of the
\* path, whatever the order of the input; when two input records share a
\* path, writeManifest fails and nothing is written, not even the header.
C17_WrittenSortedOrRefused ==
  (codec.pc # "input") =>
    IF HasDuplicatePath(codec.slice)
    THEN codec.pc = "failed" /\ codec.err /\ codec.rows = <<>> /\ codec.text = <<>>
    ELSE /\ ~codec.err
         /\ Len(codec.rows) = Len(codec.slice) + 1
         /\ { codec.rows[i] : i \in 2..Len(codec.rows) } =
              { ManifestLine(codec.slice[i]) : i \in 1..Len(codec.slice) }
         /\ \A i, j \in 2..Len(codec.rows) :
              i < j => BytesLess(Spell(codec.rows[i][1]), Spell(codec.rows[j][1]))

\* Two records were given in descending path order and written.
C17_Witness ==
  /\ codec.pc = "written"
  /\ Len(codec.slice) = 2
  /\ BytesLess(Spell(codec.slice[2].Path), Spell(codec.slice[1].Path))

\* Two records with one path were given and refused.
C17_WitnessDuplicate ==
  /\ codec.pc = "failed"
  /\ Len(codec.slice) = 2
  /\ codec.slice[1].Path = codec.slice[2].Path
  /\ codec.slice[1] # codec.slice[2]

-----------------------------------------------------------------------------
(* Claims about the order of the output of compare. *)

\* The difference lines of the two maps when the paths are visited in
\* ascending order, from the i-th path on.
RECURSIVE LinesInPathOrder(_)
LinesInPathOrder(i) ==
  IF i > Len(PathSeq) THEN <<>>
  ELSE LET path == PathSeq[i] IN
       (IF path \in DOMAIN cmp.map1 THEN compareLeft(cmp.map1, cmp.map2, cmp.strict, path)
        ELSE IF path \in DOMAIN cmp.map2 THEN compareRight(cmp.map1, path)
        ELSE <<>>) \o LinesInPathOrder(i + 1)

\* C19: When compare ends, the printed difference lines are in strictly
\* ascending byte order of their paths, and they are the one sequence the two
\* maps determine, whatever the order in which the two range loops visited
\* the keys.
C19_OutputAscending ==
  CompareDone =>
    /\ \A i, j \in 1..Len(cmp.printed) :
         i < j => BytesLess(Spell(cmp.printed[i].Path), Spell(cmp.printed[j].Path))
    /\ cmp.printed = LinesInPathOrder(1)

\* The loops appended two lines in descending path order before the sort.
C19_Witness ==
  /\ CompareDone
  /\ Len(cmp.outputs) = 2
  /\ BytesLess(Spell(cmp.outputs[2].Path), Spell(cmp.outputs[1].Path))
  /\ Len(cmp.printed) = 2

-----------------------------------------------------------------------------
(* Claims about verify.  They are stated on the lines verify has printed    *)
(* (vf.out), the manifest it read (vf.manifestSlice) and the paths the walk *)
(* handed to the workers (vf.accessedPathSlice).                             *)

VfRemovedLines(p) == { i \in 1..Len(vf.out) : vf.out[i] = VfLine("[-]", p) }

VfInManifest(p) == \E i \in 1..Len(vf.manifestSlice) : vf.manifestSlice[i].Path = p

\* The walk function was called on the path as a file.
VfVisited(p) == \E i \in 1..Len(vf.accessedPathSlice) : vf.accessedPathSlice[i] = p

\* C20: When verify ends, every manifest path the walk did not visit as a
\* file has exactly one [-] line and no other path has one; without a failure
\* in the walk the visited paths are the files of the directory; and a run
\* that has not ended, or ended in a failure of the walk, has printed no [-]
\* line.
C20_RemovedExactlyUnvisited ==
  /\ vf.pc = "done" =>
       /\ \A p \in VfPaths :
            Cardinality(VfRemovedLines(p)) = IF VfInManifest(p) /\ ~VfVisited(p) THEN 1 ELSE 0
       /\ vf.fault.kind \notin {"readdir"} =>
            \A p \in VfPaths : VfVisited(p) <=> vf.dir[p] # NoEntry
  /\ vf.pc \in {"start", "read_error", "walk", "panic"} =>
       \A p \in VfPaths : VfRemovedLines(p) = {}

\* Verify ended on a manifest of two entries of which one was visited and the
\* other was not and is reported.
C20_Witness ==
  /\ vf.pc = "done"
  /\ Len(vf.manifestSlice) = 2
  /\ \E p, q \in VfPaths :
       /\ VfInManifest(p) /\ VfVisited(p) /\ VfRemovedLines(p) = {}
       /\ VfInManifest(q) /\ ~VfVisited(q) /\ Cardinality(VfRemovedLines(q)) = 1

\* The walk failed on the root after a manifest with entries was read.
C20_WitnessWalkFails ==
  /\ vf.pc = "panic"
  /\ vf.fault.kind = "root"
  /\ Len(vf.manifestSlice) > 0

-----------------------------------------------------------------------------
(* Claims about readManifest on any manifest file. *)

\* The rows of the file after the header, when the text is well-formed CSV.
FileRows == csvReadFrom(codec.text, 1, <<>>).rows

\* C21: readManifest never returns a record list in which a path occurs
\* twice: a file with two rows of one path is refused.
C21_DuplicatePathRefused ==
  (codec.pc = "fileread" /\ ~codec.out.err) => ~HasDuplicatePath(codec.out.slice)

\* readManifest refuses a file without a header, a row that has not five
\* fields, and a time, size or id that does not parse.
ReadRefusesMalformed ==
  codec.pc = "fileread" =>
    (codec.out.err <=>
       \/ Len(FileRows) = 0
       \/ \E i \in 1..Len(FileRows) : Len(FileRows[i]) # 5
       \/ \E i \in 2..Len(FileRows) :
            \/ ~ParseInt(FileRows[i][2]).ok
            \/ ~ParseInt(FileRows[i][3]).ok
            \/ ~ParseUint(FileRows[i][5]).ok)

-----------------------------------------------------------------------------
(* Claims about what update writes.  The first manifest of a disk is always *)
(* the work of create (update needs an old manifest to write a whole one),   *)
(* so its records were correct for the tree it described.                    *)

FirstManifest == ManifestSeq[1]

\* Whenever the first manifest gets rows, create wrote them, and each record
\* has the stable id and the content hash of the file at its path.
FirstManifestByCreate ==
  [][(disk'[FirstManifest] # disk[FirstManifest] /\ Len(disk'[FirstManifest].bytes) > 0) =>
       /\ run'.cmd = "create" /\ run'.success
       /\ LET slice == readManifest(disk'[FirstManifest]).slice IN
          \A i \in 1..Len(slice) :
            /\ tree[slice[i].Path] # NoFile
            /\ slice[i].Hash = calculateMD5(tree[slice[i].Path])
            /\ slice[i].NTFSFileID = tree[slice[i].Path].id]_vars

\* C22: After a successful update from a manifest whose records were correct
\* for the tree it described, every record of the new manifest carries the
\* content hash of the file that is now at the record's path.
C22_NewHashesCurrent ==
  (UpdateOk /\ run.old = FirstManifest /\ run.fault = NoFault) =>
    \A j \in 1..Len(NewRecords) :
      /\ tree[NewRecords[j].Path] # NoFile
      /\ NewRecords[j].Hash = calculateMD5(tree[NewRecords[j].Path])

\* C23: In a manifest written by update, each record's stable id is the
\* stable id of the file at the record's path, so that no two records share
\* a stable id.
C23_NewIdsCurrent ==
  (UpdateOk /\ run.old = FirstManifest /\ run.fault = NoFault) =>
    /\ \A j \in 1..Len(NewRecords) :
         /\ tree[NewRecords[j].Path] # NoFile
         /\ NewRecords[j].NTFSFileID = tree[NewRecords[j].Path].id
    /\ \A i, j \in 1..Len(NewRecords) :
         NewRecords[i].NTFSFileID = NewRecords[j].NTFSFileID => i = j

\* C24: After a successful update in which no file failed, the new manifest
\* has exactly one record for every regular file of the scanned tree and no
\* record for any other path: a path of the old manifest that is no longer
\* in the tree is not carried over.
C24_PathsAreTheScannedFiles ==
  (UpdateOk /\ run.fault = NoFault) =>
    /\ \A p \in Paths : Cardinality(NewAt(p)) = IF tree[p] # NoFile THEN 1 ELSE 0
    /\ \A j \in 1..Len(NewRecords) : NewRecords[j].Path \in Paths
    /\ \A i \in 1..Len(OldRecords) :
         tree[OldRecords[i].Path] = NoFile => NewAt(OldRecords[i].Path) = {}

\* The file of an old record was moved to another path, where the update
\* found it by its stable id, and the old path is gone from the tree.
C24_Witness ==
  /\ UpdateOk /\ run.fault = NoFault /\ run.old # run.new
  /\ \E i \in 1..Len(OldRecords), p \in Paths :
       /\ tree[OldRecords[i].Path] = NoFile
       /\ tree[p] # NoFile
       /\ tree[p].id = OldRecords[i].NTFSFileID
       /\ NewAt(p) # {}
       /\ p \notin run.hashed

-----------------------------------------------------------------------------
(* Claims about runUpdate. *)

\* The files the walk handed to the workers.
RuSentFiles == { i \in 1..Len(ru.visits) : ru.visits[i].kind = "file" }

\* C25: When the main goroutine of runUpdate sorts and writes
\* newManifestSlice, the collector is not in the middle of an append and the
\* slice holds the record of every file the workers processed; the manifest
\* written has a record for each of them.
C25_CollectorDoneBeforeSort ==
  /\ ru.pc \in {"sort", "write"} =>
       /\ ru.collector.pc # "append"
       /\ Len(ru.newManifestSlice) = Cardinality(RuSentFiles)
  /\ ru.pc = "done" =>
       Len(mainReadManifest(ru.disk["new.csv"]).slice) = Cardinality(RuSentFiles)

-----------------------------------------------------------------------------
(* Claims about the scan pipeline of runCreate. *)

RcBusy == { w \in Workers : rc.worker[w].pc = "send" }

\* The files the walker has sent and no worker has finished with: in the
\* channel, or in a worker that has not yet delivered the record.
RcInFlight == Len(rc.chan) + Cardinality(RcBusy)

\* The places where the file, or its record, is.
RcPlaces(p) ==
  (IF p \in rc.todo THEN 1 ELSE 0) +
  Cardinality({ i \in 1..Len(rc.chan) : rc.chan[i] = p }) +
  Cardinality({ w \in RcBusy : rc.worker[w].fileInfo.Path = p }) +
  (IF rc.collector.pc = "append" /\ rc.collector.fileInfo.Path = p THEN 1 ELSE 0) +
  Cardinality({ i \in 1..Len(rc.fileInfoSlice) : rc.fileInfoSlice[i].Path = p })

\* C26: While the pipeline runs, the files sent by the walker and not yet
\* finished by a worker are at most the capacity of the channel plus the
\* number of workers; the walker cannot send when the channel is full and
\* every worker is busy; and every file of the directory is in exactly one
\* place (not yet walked, in the channel, in a worker, in the collector or in
\* the slice) as long as the walk has not stopped on an error.
C26_Backpressure ==
  (RcRunning \/ rc.pc = "done") =>
    /\ RcInFlight <= NumCPU + Cardinality(Workers)
    /\ (Len(rc.chan) = NumCPU /\ RcBusy = Workers) =>
         ~ENABLED (\E p \in RcAllPaths : RcWalkFile(p))
    /\ ~rc.walkErr => \A p \in DOMAIN rc.dir : RcPlaces(p) = 1

\* The channel is full, every worker is busy and the walker has a file left
\* to send.
C26_Witness ==
  /\ rc.pc = "walk"
  /\ Len(rc.chan) = NumCPU
  /\ RcBusy = Workers
  /\ RcInFlight = NumCPU + Cardinality(Workers)
  /\ rc.todo \cap RcManyPaths # {}

\* The same bound in runUpdate, whose channel has no buffer: the files sent
\* and not yet delivered as records are at most the number of workers.
RuBackpressure ==
  Cardinality({ w \in Workers : ru.pc # "off" /\ ru.worker[w].pc \in {"process", "send"} })
    <= Cardinality(Workers)

\* The pipeline has come to its end: the walk is over, both channels are
\* closed, every worker and the collector have left their loops and the
\* main goroutine is past both waits.
RcCompleted ==
  /\ rc.pc \in {"wait2", "done", "walk_error"}
  /\ rc.todo = {}
  /\ rc.closed /\ rc.closedFileInfo
  /\ \A w \in Workers : rc.worker[w].pc = "done"
  /\ rc.collector.pc = "done"

-----------------------------------------------------------------------------
(* Claims about running update again after it failed. *)

\* The last command was update(dir, old, new), it failed on reading the old
\* manifest (so createFile had succeeded: new did not exist before), and the
\* old manifest has since been corrected.
RetryReady(old, new) ==
  /\ run.cmd = "update"
  /\ run.outcome = "read_error"
  /\ run.old = old
  /\ run.new = new
  /\ old # new
  /\ ~readManifest(disk[old]).err

\* C28: when update failed because the old manifest could not be read and
\* the old manifest has been corrected, update run again with the same
\* arguments succeeds and writes the new manifest.
C28_RetrySucceeds ==
  [][\A old, new \in ManifestNames :
       (RetryReady(old, new) /\ Update(old, new, Nominal)) =>
         (run'.outcome = "ok" /\ Len(disk'[new].bytes) > 0)]_vars

-----------------------------------------------------------------------------
(* Claims about the lines verify prints for the scanned files.  They are    *)
(* stated on the manifest file and the directory verify was given.          *)

VfCount(tag, p) == Cardinality({ i \in 1..Len(vf.out) : vf.out[i] = VfLine(tag, p) })

\* The records of the manifest file with the path.
VfRecordsOf(p) ==
  LET slice == mainReadManifest(vf.file).slice IN
  { slice[i] : i \in { j \in 1..Len(slice) : slice[j].Path = p } }

\* The file at the path is not as the manifest recorded it: another second
\* of modification, another size or, without --quick, another hash.
VfChanged(p) ==
  \E r \in VfRecordsOf(p) :
    \/ vf.dir[p].sec # r.ModifiedTime.sec
    \/ vf.dir[p].size # r.Size
    \/ ~vf.quick /\ calculateMD5(vf.dir[p]) # r.Hash

\* The walk hands the path to the walk function as a file.
VfScannedFile(p) ==
  LET visits == VfVisits(vf.dir, vf.fault) IN
  \E i \in 1..Len(visits) : visits[i] = VfVisit(p, "file")

\* The lines expected for a path when verify has ended.
VfExpected(tag, p) ==
  IF ~VfScannedFile(p) THEN 0
  ELSE IF tag = "[+]" THEN (IF VfRecordsOf(p) = {} THEN 1 ELSE 0)
  ELSE IF VfChanged(p) THEN 1 ELSE 0

\* C29: In every state of every interleaving a path has at most one line of
\* [+], [M] and [-] together, and a [+] or [M] line is there only for a file
\* that is to have it; when verify has ended, a scanned file has one [+] line
\* iff its path is not in the manifest, one [M] line iff its path is in the
\* manifest and the second of its modification time, its size or (without
\* --quick) its hash differs from the record, and no line otherwise.
C29_Classification ==
  /\ vf.pc # "off" =>
       \A p \in VfPaths :
         /\ VfCount("[+]", p) + VfCount("[M]", p) + VfCount("[-]", p) <= 1
         /\ VfCount("[+]", p) <= VfExpected("[+]", p)
         /\ VfCount("[M]", p) <= VfExpected("[M]", p)
  /\ vf.pc = "done" =>
       \A p \in VfPaths :
         /\ VfCount("[+]", p) = VfExpected("[+]", p)
         /\ VfCount("[M]", p) = VfExpected("[M]", p)

\* A full verify ended with two scanned files: one whose bytes alone differ
\* from its record, reported [M], and one recorded as it is, with no line.
C29_Witness ==
  /\ vf.pc = "done"
  /\ ~vf.quick
  /\ \E p, q \in VfPaths :
       /\ p # q
       /\ vf.dir[p] # NoEntry /\ vf.dir[q] # NoEntry
       /\ \E r \in VfRecordsOf(p) :
            /\ r.ModifiedTime.sec = vf.dir[p].sec /\ r.Size = vf.dir[p].size
            /\ r.Hash # calculateMD5(vf.dir[p])
       /\ VfCount("[M]", p) = 1
       /\ VfRecordsOf(q) # {} /\ ~VfChanged(q)
       /\ VfCount("[M]", q) = 0

\* A quick verify ended with a file whose bytes alone differ from its
\* record and no line for it, and a file that is not in the manifest,
\* reported [+].
C29_WitnessQuick ==
  /\ vf.pc = "done"
  /\ vf.quick
  /\ \E p, q \in VfPaths :
       /\ vf.dir[p] # NoEntry
       /\ \E r \in VfRecordsOf(p) : r.Hash # calculateMD5(vf.dir[p])
       /\ ~VfChanged(p)
       /\ VfCount("[M]", p) = 0
       /\ vf.dir[q] # NoEntry /\ VfRecordsOf(q) = {}
       /\ VfCount("[+]", q) = 1

-----------------------------------------------------------------------------
(* Claims about the older manifest codec. *)

\* C30: readManifest of what the older writeManifest wrote succeeds and
\* returns, record by record, the path, the modification time, the size, the
\* hash and the stable id that were written, also for a path that
\* toCSVField puts between quotes.
C30_SprintfRoundTrip ==
  codec.pc = "split_read" =>
    /\ ~codec.out.err
    /\ codec.out.slice = codec.slice

\* The records whose path toCSVField leaves as it is do come back.
SprintfRoundTripUnquoted ==
  (codec.pc = "split_read" /\
   \A i \in 1..Len(codec.slice) : toCSVField(Spell(codec.slice[i].Path)) = Spell(codec.slice[i].Path)) =>
    /\ ~codec.out.err
    /\ codec.out.slice = codec.slice

\* A record with a comma in its path is refused when read back; a record
\* with a quote in its path comes back with another path.
SprintfQuotedLost ==
  (codec.pc = "split_read" /\ Len(codec.slice) = 1) =>
    /\ codec.slice[1].Path = "a,b" => codec.out.err
    /\ codec.slice[1].Path = "a\"b" =>
         ~codec.out.err /\ codec.out.slice[1].Path # "a\"b"

====
